---------------------------- MODULE Spec2Model ----------------------------
(* Filter Context Engine of agent_ia_target: the merge engine               *)
(* (SmartFilterReplacer), the removal detector (FilterRemovalDetector),     *)
(* the SQL filter extractor with its period structurer, and the temporal    *)
(* expression parser (TextNormalizer).                                      *)
(*                                                                          *)
(* A filter value is a record [k, v]: k = "str" for a Python string, whose  *)
(* v is the sequence of its words ("" is <<>>), and k = "list" for a Python *)
(* list, whose v is the sequence of its items.  A context (a Python dict)   *)
(* is a function from the set of its keys to values; a new-filter set, whose*)
(* iteration order matters, is a sequence of <<field, value>> pairs.        *)
EXTENDS Integers, Sequences, FiniteSets, TLC

VARIABLES
    ctx,        \* the caller's filter context (agent.persistent_context)
    call,       \* the engine call in progress: its inputs and what it returned
    period,     \* the last structured period converted, with its conversions
    dataset_context,  \* TextNormalizer.dataset_context
    wall_clock,       \* the system date
    runs,       \* the last two runs of parse_temporal_entities
    last_context,     \* st.session_state.last_context
    disabled_filters  \* st.session_state.disabled_filters

vars == <<ctx, call, period, dataset_context, wall_clock, runs, last_context,
          disabled_filters>>

engineVars == <<ctx, call>>

temporalVars == <<dataset_context, wall_clock, runs>>

sessionVars == <<last_context, disabled_filters>>

-----------------------------------------------------------------------------
(* Configuration: src/src/config/agent_config.py                            *)

ExclusiveFields ==
    {"Municipio_Cliente", "UF_Cliente", "Data", "periodo_mes_ano",
     "Cod_Cliente", "Cod_Segmento_Cliente"}

MultiValueFields ==
    {"Cod_Familia_Produto", "Cod_Grupo_Produto", "Cod_Linha_Produto",
     "Des_Linha_Produto", "Cod_Vendedor", "Cod_Regiao_Vendedor",
     "Data_>=", "Data_<", "Data_<=", "Data_>"}

CriticalFields ==
    <<"Cod_Cliente", "Municipio_Cliente", "UF_Cliente", "Cod_Segmento_Cliente">>

RangeFields == <<"Data_>=", "Data_<", "Data_<=", "Data_>">>

TemporalFields == <<"Data", "Data_>=", "Data_<", "Data_<=", "Data_>">>

-----------------------------------------------------------------------------
(* Values and dictionaries                                                  *)

Str(w) == [k |-> "str", v |-> <<w>>]
Lst(s) == [k |-> "list", v |-> s]

\* Python: value is None or value == [] or value == ""
IsEmpty(val) == val.v = <<>>

\* Python truthiness of a stored value
Truthy(val) == val.v # <<>>

EmptyCtx == [f \in {} |-> Str("")]

Has(c, f) == f \in DOMAIN c

SetKey(c, f, val) == [g \in DOMAIN c \cup {f} |-> IF g = f THEN val ELSE c[g]]

DelKey(c, f) == [g \in DOMAIN c \ {f} |-> c[g]]

Range(s) == {s[i] : i \in 1..Len(s)}

\* list.append(item) on the list stored under f
AppendTo(c, f, item) == SetKey(c, f, Lst(Append(c[f].v, item)))

-----------------------------------------------------------------------------
(* SmartFilterReplacer: src/src/filters/core/replacer.py                    *)

\* A change-log entry; the code's strings are kept as (kind, field, n).
Chg(kind, field) == [kind |-> kind, field |-> field, n |-> 0]
ChgN(kind, n) == [kind |-> kind, field |-> "", n |-> n]

CheckGroupConflicts(field, new_value, existing_context) ==
    IF field = "Municipio_Cliente"
    THEN Has(existing_context, "Municipio_Cliente")
         /\ Truthy(existing_context["Municipio_Cliente"])
    ELSE IF field \in {"Data_>=", "Data_<"}
    THEN Has(existing_context, "Data_>=") /\ Has(existing_context, "Data_<")
    ELSE IF field = "Data"
    THEN \E i \in 1..Len(TemporalFields) :
            /\ Has(existing_context, TemporalFields[i])
            /\ Truthy(existing_context[TemporalFields[i]])
    ELSE FALSE

\* should_replace_filter without its exclusive-field test
ShouldReplaceFilterGroupOnly(field, new_value, existing_context) ==
    CheckGroupConflicts(field, new_value, existing_context)

ShouldReplaceFilter(field, new_value, existing_context) ==
    IF field \in ExclusiveFields /\ Has(existing_context, field)
    THEN TRUE
    ELSE CheckGroupConflicts(field, new_value, existing_context)

\* The fields of the critical list present and non-empty in the old context
\* and not mentioned by the new filters, in the order of the list.
RECURSIVE PreserveFrom(_, _, _)
PreserveFrom(i, existing_context, newKeys) ==
    IF i > Len(CriticalFields) THEN <<>>
    ELSE LET field == CriticalFields[i]
             rest  == PreserveFrom(i + 1, existing_context, newKeys)
         IN  IF /\ Has(existing_context, field)
                /\ field \notin newKeys
                /\ ~IsEmpty(existing_context[field])
             THEN <<field>> \o rest
             ELSE rest

PreserveCriticalFields(existing_context, newKeys) ==
    PreserveFrom(1, existing_context, newKeys)

\* The state of one run of apply_intelligent_merge:
\*   res   result_context            chg   changes
\*   pres  critical_preserved (its keys; the values are the old context's)
\*   inp   the caller's context object, as the run leaves it
\*   shr   the fields whose list in res is the very list object held by inp
\*         (result_context is a shallow copy)
RECURSIVE CleanRange(_, _)
CleanRange(i, m) ==
    IF i > Len(RangeFields) THEN m
    ELSE LET rf == RangeFields[i]
         IN  IF Has(m.res, rf)
             THEN CleanRange(i + 1,
                    [m EXCEPT !.res = DelKey(m.res, rf),
                              !.shr = m.shr \ {rf},
                              !.chg = Append(m.chg, Chg("LIMPEZA", rf))])
             ELSE CleanRange(i + 1, m)

\* _clean_related_fields with its city branch filled in: a new city drops the
\* state of the old one, from the result and from the preserved fields
CleanRelatedFieldsClearsState(field, m) ==
    IF field = "Municipio_Cliente"
    THEN [m EXCEPT !.res = DelKey(m.res, "UF_Cliente"),
                   !.shr = m.shr \ {"UF_Cliente"},
                   !.pres = SelectSeq(m.pres, LAMBDA f : f # "UF_Cliente")]
    ELSE IF field = "Data" THEN CleanRange(1, m)
    ELSE IF field \in {"Data_>=", "Data_<"} /\ Has(m.res, "Data")
    THEN [m EXCEPT !.res = DelKey(m.res, "Data"),
                   !.shr = m.shr \ {"Data"},
                   !.chg = Append(m.chg, Chg("LIMPEZA_DATA", "Data"))]
    ELSE m

CleanRelatedFields(field, m) ==
    IF field = "Municipio_Cliente" THEN m
    ELSE IF field = "Data" THEN CleanRange(1, m)
    ELSE IF field \in {"Data_>=", "Data_<"}
    THEN IF Has(m.res, "Data")
         THEN [m EXCEPT !.res = DelKey(m.res, "Data"),
                        !.shr = m.shr \ {"Data"},
                        !.chg = Append(m.chg, Chg("LIMPEZA_DATA", "Data"))]
         ELSE m
    ELSE m

\* result_context[field].append(item), once per item not yet in the list;
\* the list is shared with the caller's context while field is in shr.
RECURSIVE AppendItems(_, _, _, _)
AppendItems(field, items, i, m) ==
    IF i > Len(items) THEN m
    ELSE IF items[i] \in Range(m.res[field].v)
    THEN AppendItems(field, items, i + 1, m)
    ELSE AppendItems(field, items, i + 1,
            [m EXCEPT !.res = AppendTo(m.res, field, items[i]),
                      !.inp = IF field \in m.shr
                              THEN AppendTo(m.inp, field, items[i])
                              ELSE m.inp,
                      !.chg = Append(m.chg, Chg("ADICAO", field))])

MergeField(field, new_value, m) ==
    IF IsEmpty(new_value) THEN m
    ELSE IF ShouldReplaceFilter(field, new_value, m.res)
    THEN LET unpres == IF field \in Range(m.pres)
                       THEN [m EXCEPT
                              !.pres = SelectSeq(m.pres, LAMBDA f : f # field),
                              !.chg = SelectSeq(m.chg, LAMBDA c :
                                        ~(c.kind = "PRESERVACAO" /\ c.field = field))]
                       ELSE m
             changed == ~Has(m.res, field) \/ m.res[field] # new_value
             set == [unpres EXCEPT !.res = SetKey(unpres.res, field, new_value),
                                   !.shr = unpres.shr \ {field}]
         IN  IF changed
             THEN CleanRelatedFields(field,
                    [set EXCEPT !.chg = Append(set.chg, Chg("SUBSTITUICAO", field))])
             ELSE set
    ELSE IF Has(m.res, field) /\ m.res[field].k = "list"
    THEN IF new_value.k = "list"
         THEN AppendItems(field, new_value.v, 1, m)
         ELSE AppendItems(field, <<new_value.v[1]>>, 1, m)
    ELSE [m EXCEPT !.res = SetKey(m.res, field, new_value),
                   !.shr = m.shr \ {field},
                   !.chg = Append(m.chg, Chg("NOVO", field))]

RECURSIVE MergeLoop(_, _, _)
MergeLoop(new_filters, i, m) ==
    IF i > Len(new_filters) THEN m
    ELSE MergeLoop(new_filters, i + 1,
                   MergeField(new_filters[i][1], new_filters[i][2], m))

RECURSIVE RestorePreserved(_, _, _)
RestorePreserved(existing_context, i, m) ==
    IF i > Len(m.pres) THEN m
    ELSE LET field == m.pres[i]
         IN  IF ~Has(m.res, field)
             THEN RestorePreserved(existing_context, i + 1,
                    [m EXCEPT !.res = SetKey(m.res, field, existing_context[field])])
             ELSE RestorePreserved(existing_context, i + 1, m)

Keys(new_filters) == {new_filters[i][1] : i \in 1..Len(new_filters)}

RECURSIVE PreservedLog(_, _)
PreservedLog(pres, i) ==
    IF i > Len(pres) THEN <<>>
    ELSE <<Chg("PRESERVACAO", pres[i])>> \o PreservedLog(pres, i + 1)

\* apply_intelligent_merge(existing_context, new_filters): the record of the
\* run; .res and .chg are what it returns, .inp what it leaves in the
\* caller's object.
ApplyIntelligentMerge(existing_context, new_filters) ==
    LET pres == PreserveCriticalFields(existing_context, Keys(new_filters))
        m0 == [res  |-> existing_context,
               chg  |-> PreservedLog(pres, 1),
               pres |-> pres,
               inp  |-> existing_context,
               shr  |-> {f \in DOMAIN existing_context :
                            existing_context[f].k = "list"}]
    IN  RestorePreserved(existing_context, 1, MergeLoop(new_filters, 1, m0))

\* handle_explicit_removals / FilterRemovalDetector.apply_removals share this
\* count: the values that are not None, [] or "".
NonEmptyCount(c) == Cardinality({f \in DOMAIN c : ~IsEmpty(c[f])})

\* validate_context_consistency without the check of the temporal conflict
ValidateProblemsNoDates(context) ==
    LET multi(f) == Has(context, f) /\ context[f].k = "list"
                    /\ Len(context[f].v) > 1
    IN  (IF multi("Municipio_Cliente") THEN <<"multiplas_cidades">> ELSE <<>>)
        \o (IF multi("Cod_Cliente") THEN <<"multiplos_clientes">> ELSE <<>>)

\* validate_context_consistency(context): the list of problems found.
ValidateProblems(context) ==
    LET multi(f) == Has(context, f) /\ context[f].k = "list"
                    /\ Len(context[f].v) > 1
        has_specific_date == Has(context, "Data") /\ Truthy(context["Data"])
        has_date_range ==
            \/ Has(context, "Data_>=") /\ Truthy(context["Data_>="])
            \/ Has(context, "Data_<") /\ Truthy(context["Data_<"])
    IN  (IF multi("Municipio_Cliente") THEN <<"multiplas_cidades">> ELSE <<>>)
        \o (IF has_specific_date /\ has_date_range
            THEN <<"conflito_temporal">> ELSE <<>>)
        \o (IF multi("Cod_Cliente") THEN <<"multiplos_clientes">> ELSE <<>>)

ValidateContextConsistency(context) == ValidateProblems(context) = <<>>

\* Words of a string value: names, the conjunction in either case, and ","
\* for the separator ", ".
Upper(w) == IF w = "and" THEN "AND" ELSE IF w = "a" THEN "A"
            ELSE IF w = "b" THEN "B" ELSE w

UpperAll(ws) == [i \in 1..Len(ws) |-> Upper(ws[i])]

\* ' AND ' in s.upper() or ', ' in s
HasConjunction(ws) ==
    \/ \E i \in 2..(Len(ws) - 1) : Upper(ws[i]) = "AND"
    \/ \E i \in 1..Len(ws) : ws[i] = ","

\* s.replace(' AND ', ',').split(',')[-1].strip(): the words after the last
\* separator, a separator being ", " or an upper-case ' AND ' between words.
IsSeparator(ws, i) ==
    \/ ws[i] = ","
    \/ ws[i] = "AND" /\ 1 < i /\ i < Len(ws)

LastPart(ws) ==
    LET seps == {i \in 1..Len(ws) : IsSeparator(ws, i)}
        last == IF seps = {} THEN 0
                ELSE CHOOSE i \in seps : \A j \in seps : j <= i
    IN  SubSeq(ws, last + 1, Len(ws))

\* auto_resolve_conflicts(context): [res |-> corrected_context,
\*                                   chg |-> corrections]
AutoResolveConflicts(context) ==
    LET c0 == [res |-> context, chg |-> <<>>]
        c1 == IF ~Has(context, "Municipio_Cliente") THEN c0
              ELSE LET municipio == context["Municipio_Cliente"]
                   IN  IF municipio.k = "str"
                       THEN IF HasConjunction(municipio.v)
                            THEN [res |-> SetKey(c0.res, "Municipio_Cliente",
                                     [k |-> "str",
                                      v |-> UpperAll(LastPart(municipio.v))]),
                                  chg |-> Append(c0.chg, "CORRECAO_cidades")]
                            ELSE c0
                       ELSE IF Len(municipio.v) = 1
                       THEN [res |-> SetKey(c0.res, "Municipio_Cliente",
                                            Str(municipio.v[1])),
                             chg |-> Append(c0.chg, "CORRECAO_lista")]
                       ELSE c0
        c2 == IF ~Has(c1.res, "Cod_Cliente") THEN c1
              ELSE LET cliente == c1.res["Cod_Cliente"]
                   IN  IF cliente.k = "str" /\ HasConjunction(cliente.v)
                       THEN [res |-> SetKey(c1.res, "Cod_Cliente",
                                     [k |-> "str", v |-> LastPart(cliente.v)]),
                             chg |-> Append(c1.chg, "CORRECAO_clientes")]
                       ELSE c1
        has_specific_date == Has(c2.res, "Data") /\ Truthy(c2.res["Data"])
        has_date_range ==
            \/ Has(c2.res, "Data_>=") /\ Truthy(c2.res["Data_>="])
            \/ Has(c2.res, "Data_<") /\ Truthy(c2.res["Data_<"])
    IN  IF has_specific_date /\ has_date_range
        THEN [res |-> DelKey(c2.res, "Data"),
              chg |-> Append(c2.chg, "CORRECAO_temporal")]
        ELSE c2

-----------------------------------------------------------------------------
(* FilterRemovalDetector: src/src/filters/processors/filter_removal_detector.py *)

\* FILTER_REMOVAL_CONFIG field_mapping and category_mapping, for the terms
\* the model's utterances use.
FieldMapping(term) ==
    CASE term = "cidade"  -> {"Municipio_Cliente"}
      [] term = "estado"  -> {"UF_Cliente"}
      [] term = "regiao"  -> {"UF_Cliente", "Municipio_Cliente"}
      [] term = "cliente" -> {"Cod_Cliente"}
      [] term = "data"    -> {"Data", "Data_>=", "Data_<"}
      [] term = "periodo" -> {"Data_>=", "Data_<"}
      [] term = "vendedor" -> {"Cod_Vendedor"}
      [] OTHER -> {}

CategoryMapping(term) ==
    CASE term = "geografico" -> {"UF_Cliente", "Municipio_Cliente"}
      [] term = "temporal" -> {"Data", "Data_>=", "Data_<", "Data_<=", "Data_>"}
      [] OTHER -> {}

MapTermToFields(term, current_context) ==
    {f \in FieldMapping(term) : Has(current_context, f)}
    \cup {f \in CategoryMapping(term) : Has(current_context, f)}

\* An utterance is the record of what the patterns find in it: clear, whether
\* a clear_all_patterns entry matches; terms, the terms captured by the
\* removal_patterns.
IsClearAllCommand(utterance) == utterance.clear

DetectSpecificRemovals(utterance, current_context) ==
    UNION {MapTermToFields(t, current_context) : t \in utterance.terms}

\* detect_removal_intent looking for field-level removals before clear-all
DetectRemovalIntentFieldsFirst(utterance, current_context) ==
    LET fields_to_remove == DetectSpecificRemovals(utterance, current_context)
    IN  IF fields_to_remove # {}
        THEN [has |-> TRUE, fields |-> fields_to_remove,
              clear_all |-> FALSE, scanned |-> TRUE]
        ELSE [has |-> IsClearAllCommand(utterance), fields |-> {},
              clear_all |-> IsClearAllCommand(utterance), scanned |-> TRUE]

\* detect_removal_intent: [has, fields, clear_all, scanned]; scanned records
\* whether the field-level patterns were evaluated.
DetectRemovalIntent(utterance, current_context) ==
    IF IsClearAllCommand(utterance)
    THEN [has |-> TRUE, fields |-> {}, clear_all |-> TRUE, scanned |-> FALSE]
    ELSE LET fields_to_remove == DetectSpecificRemovals(utterance, current_context)
         IN  [has |-> fields_to_remove # {}, fields |-> fields_to_remove,
              clear_all |-> FALSE, scanned |-> TRUE]

\* One "REMOCAO" entry per removed field (the order is that of a Python set).
RECURSIVE RemovalLog(_)
RemovalLog(fields) ==
    IF fields = {} THEN <<>>
    ELSE LET f == CHOOSE g \in fields : TRUE
         IN  <<Chg("REMOCAO", f)>> \o RemovalLog(fields \ {f})

\* apply_removals(current_context, fields_to_remove, clear_all)
ApplyRemovals(current_context, fields_to_remove, clear_all) ==
    IF clear_all
    THEN [res |-> EmptyCtx,
          chg |-> <<ChgN("LIMPEZA_TOTAL", NonEmptyCount(current_context))>>]
    ELSE LET gone == fields_to_remove \cap DOMAIN current_context
         IN  [res |-> [f \in DOMAIN current_context \ gone |-> current_context[f]],
              chg |-> IF gone = {} THEN <<Chg("INFO_nada_a_remover", "")>>
                      ELSE RemovalLog(gone)]

\* detect_and_apply_filter_removal(user_query, current_context)
DetectAndApplyFilterRemoval(utterance, current_context) ==
    LET d == DetectRemovalIntent(utterance, current_context)
    IN  IF ~d.has
        THEN [res |-> current_context, chg |-> <<>>, removed |-> FALSE, det |-> d]
        ELSE LET r == ApplyRemovals(current_context, d.fields, d.clear_all)
             IN  [res |-> r.res, chg |-> r.chg, removed |-> TRUE, det |-> d]

-----------------------------------------------------------------------------
(* Dates.  A date string is the sequence of its characters; a datetime is   *)
(* a record [y, m, d].                                                      *)

Digits == <<"0", "1", "2", "3", "4", "5", "6", "7", "8", "9">>

IsDigit(c) == c \in Range(Digits)

DigitVal(c) == CHOOSE n \in 0..9 : Digits[n + 1] = c

\* f"{n:02d}" and f"{n:04d}" / str(year)
Fmt2(n) == <<Digits[((n \div 10) % 10) + 1], Digits[(n % 10) + 1]>>
Fmt4(n) == <<Digits[((n \div 1000) % 10) + 1],
             Digits[((n \div 100) % 10) + 1]>> \o Fmt2(n)

\* int(s) of a string of digits
RECURSIVE ParseInt(_)
ParseInt(s) ==
    IF s = <<>> THEN 0
    ELSE 10 * ParseInt(SubSeq(s, 1, Len(s) - 1)) + DigitVal(s[Len(s)])

IsDigitString(s) == s # <<>> /\ \A i \in 1..Len(s) : IsDigit(s[i])

\* f"{y}-{m:02d}-{d:02d}" / strftime('%Y-%m-%d')
FmtDate(y, m, d) == Fmt4(y) \o <<"-">> \o Fmt2(m) \o <<"-">> \o Fmt2(d)

\* the years of the data
FirstYear == 2015
NumYears == 2

Years == FirstYear..(FirstYear + NumYears - 1)

IsLeap(y) == (y % 4 = 0 /\ y % 100 # 0) \/ y % 400 = 0

DaysInMonth(y, m) ==
    IF m = 2 THEN (IF IsLeap(y) THEN 29 ELSE 28)
    ELSE IF m \in {4, 6, 9, 11} THEN 30 ELSE 31

\* datetime.strptime(s[:10], '%Y-%m-%d'): [ok |-> FALSE] is ValueError
Strptime(s) ==
    LET t == SubSeq(s, 1, IF Len(s) < 10 THEN Len(s) ELSE 10)
    IN  IF /\ Len(t) = 10
           /\ t[5] = "-" /\ t[8] = "-"
           /\ \A i \in {1, 2, 3, 4, 6, 7, 9, 10} : IsDigit(t[i])
        THEN LET y == ParseInt(SubSeq(t, 1, 4))
                 m == ParseInt(SubSeq(t, 6, 7))
                 d == ParseInt(SubSeq(t, 9, 10))
             IN  IF y >= 1 /\ m \in 1..12 /\ d >= 1 /\ d <= DaysInMonth(y, m)
                 THEN [ok |-> TRUE, y |-> y, m |-> m, d |-> d]
                 ELSE [ok |-> FALSE]
        ELSE [ok |-> FALSE]

\* dt - timedelta(days=1)
MinusOneDay(dt) ==
    IF dt.d > 1 THEN [dt EXCEPT !.d = dt.d - 1]
    ELSE IF dt.m > 1
    THEN [dt EXCEPT !.m = dt.m - 1, !.d = DaysInMonth(dt.y, dt.m - 1)]
    ELSE [dt EXCEPT !.y = dt.y - 1, !.m = 12, !.d = 31]

-----------------------------------------------------------------------------
(* Period structurer: src/src/filters/core/extractor.py 252-381 and         *)
(* src/src/filters/core/manager.py 311-412.  A Python dict with string keys *)
(* is a function on the set of its keys.                                    *)

EmptyDict == [k \in {} |-> <<>>]

MesAno(m, y) == [mes |-> Fmt2(m), ano |-> Fmt4(y)]

\* _convert_date_to_month_year(date_str): {} when the string is no date
ConvertDateToMonthYear(date_str) ==
    IF Len(date_str) >= 10 /\ Strptime(date_str).ok
    THEN MesAno(Strptime(date_str).m, Strptime(date_str).y)
    ELSE EmptyDict

\* extractor.py 369-374: the generic interval is labelled with the months of
\* the two date strings as given
GenericInterval(start_date, end_date, end_obj) ==
    [inicio |-> ConvertDateToMonthYear(start_date),
     fim    |-> ConvertDateToMonthYear(end_date)]

\* _convert_date_range_to_structured(start_date, end_date, is_exclusive_end)
ConvertDateRangeToStructured(start_date, end_date, is_exclusive_end) ==
    LET s == Strptime(start_date)
        e == Strptime(end_date)
    IN  IF ~s.ok \/ ~e.ok
        THEN IF is_exclusive_end
             THEN ("Data_>=" :> start_date) @@ ("Data_<" :> end_date)
             ELSE ("Data_>=" :> start_date) @@ ("Data_<=" :> end_date)
        ELSE LET end_obj == IF is_exclusive_end THEN MinusOneDay(e) ELSE e
             IN  IF /\ s.d = 1 /\ s.y = end_obj.y /\ s.m = end_obj.m
                    /\ end_obj.d >= 28
                 THEN MesAno(s.m, s.y)
                 ELSE IF s.d = 1 /\ s.y = end_obj.y
                 THEN [inicio |-> MesAno(s.m, s.y),
                       fim    |-> MesAno(end_obj.m, end_obj.y)]
                 ELSE GenericInterval(start_date, end_date, end_obj)

\* first day of the month after (m, y), as manager.py 349-356 and 386-393
NextMonthStart(m, y) ==
    IF m = 12 THEN FmtDate(y + 1, 1, 1) ELSE FmtDate(y, m + 1, 1)

\* the 'periodo' branch of _convert_sql_json_to_context(sql_filters): the
\* context fields a structured period gives
PeriodoToContext(fields) ==
    LET has(k) == k \in DOMAIN fields
        month ==
            IF has("mes") /\ has("ano")
            THEN IF IsDigitString(fields["mes"]) /\ IsDigitString(fields["ano"])
                 THEN ("Data_>=" :> FmtDate(ParseInt(fields["ano"]),
                                            ParseInt(fields["mes"]), 1))
                      @@ ("Data_<" :> NextMonthStart(ParseInt(fields["mes"]),
                                                     ParseInt(fields["ano"])))
                 ELSE ("periodo" :> fields["mes"] \o <<"/">> \o fields["ano"])
            ELSE IF has("inicio") /\ has("fim")
            THEN LET inicio == fields["inicio"]
                     fim == fields["fim"]
                     full(d) == /\ {"mes", "ano"} \subseteq DOMAIN d
                                /\ d["mes"] # <<>> /\ d["ano"] # <<>>
                 IN  IF full(inicio) /\ full(fim)
                     THEN ("Data_>=" :> FmtDate(ParseInt(inicio["ano"]),
                                                ParseInt(inicio["mes"]), 1))
                          @@ ("Data_<" :> NextMonthStart(ParseInt(fim["mes"]),
                                                         ParseInt(fim["ano"])))
                     ELSE EmptyDict
            ELSE EmptyDict
        direct == {k \in DOMAIN fields :
                     k \in {"Data_>=", "Data_<", "Data_<=", "Data_>", "Data"}}
    IN  [k \in direct |-> fields[k]] @@ month

\* the keys of temporal conditions that contain the given text
KeysContaining(sub) ==
    IF sub = "Data_>=" THEN {"Data_>="}
    ELSE IF sub = "Data_<" THEN {"Data_<", "Data_<="}
    ELSE IF sub = "Data_<=" THEN {"Data_<="}
    ELSE {sub}

\* the loop of _process_temporal_conditions over items i.. of the dict; acc
\* holds date_gte, date_lt, date_lte (<<>> is None) and the early return
RECURSIVE ScanTemporal(_, _, _)
ScanTemporal(conds, i, acc) ==
    IF i > Len(conds) THEN acc
    ELSE LET key == conds[i][1]
             value == conds[i][2]
         IN  IF key \in KeysContaining("Data_>=")
             THEN ScanTemporal(conds, i + 1, [acc EXCEPT !.gte = value])
             ELSE IF key \in KeysContaining("Data_<")
             THEN ScanTemporal(conds, i + 1, [acc EXCEPT !.lt = value])
             ELSE IF key \in KeysContaining("Data_<=")
             THEN ScanTemporal(conds, i + 1, [acc EXCEPT !.lte = value])
             ELSE IF key = "Data"
             THEN [acc EXCEPT !.exact = TRUE, !.date = value]
             ELSE ScanTemporal(conds, i + 1, acc)

\* _process_temporal_conditions(temporal_conditions): the dict is the
\* sequence of its items in insertion order
ProcessTemporalConditions(conds) ==
    LET acc == ScanTemporal(conds, 1,
                   [gte |-> <<>>, lt |-> <<>>, lte |-> <<>>,
                    exact |-> FALSE, date |-> <<>>])
        end_date == IF acc.lt # <<>> THEN acc.lt ELSE acc.lte
    IN  IF acc.exact THEN ConvertDateToMonthYear(acc.date)
        ELSE IF acc.gte # <<>> /\ end_date # <<>>
        THEN ConvertDateRangeToStructured(acc.gte, end_date, acc.lt # <<>>)
        ELSE IF acc.gte # <<>>
        THEN IF ConvertDateToMonthYear(acc.gte) # EmptyDict
             THEN [inicio |-> ConvertDateToMonthYear(acc.gte)]
             ELSE EmptyDict
        ELSE IF end_date # <<>>
        THEN IF ConvertDateToMonthYear(end_date) # EmptyDict
             THEN [fim |-> ConvertDateToMonthYear(end_date)]
             ELSE EmptyDict
        ELSE EmptyDict

\* the items of a context of date fields, in the order the period branch of
\* _convert_sql_json_to_context inserts them
TemporalItems(context) ==
    LET pick(k) == IF k \in DOMAIN context THEN <<<<k, context[k]>>>> ELSE <<>>
    IN  pick("Data_>=") \o pick("Data_<") \o pick("Data_<=") \o pick("Data_>")
        \o pick("Data")

-----------------------------------------------------------------------------
(* SQL filter extraction: src/src/filters/core/extractor.py and             *)
(* processar_filtros_apenas_sql in src/src/filters/core/manager.py.         *)
(* A query is None or a text; of a text the model keeps whether it has a    *)
(* WHERE clause and the conditions of the clause, each by its written form: *)
(*   eq_lower  LOWER(col) = 'v'      eq      col = 'v'                      *)
(*   eq_dq     col = "v"             eq_num  col = 7                        *)
(*   like_lower LOWER(col) LIKE 'v'  like    col LIKE 'v'                   *)
(*   cmp       col op 'v'            in      col IN ('v', ...)              *)
(*   between   col BETWEEN 'v' AND 'w'                                      *)
(*   other     anything else, such as col > 100                             *)

NoneVal == [k |-> "none", v |-> <<>>]

\* a date string stored as a value: one item, the characters of the date
DateStr(chars) == [k |-> "str", v |-> <<chars>>]

UpperVal(val) == [val EXCEPT !.v = UpperAll(val.v)]

Cond(form, col, op, val, val2) ==
    [form |-> form, col |-> col, op |-> op, val |-> val, val2 |-> val2]

NotAString == [kind |-> "none"]
NoWhere == [kind |-> "sql", where |-> FALSE, conds |-> <<>>]
Where(conds) == [kind |-> "sql", where |-> TRUE, conds |-> conds]

SqlKey(col, op) == [col |-> col, op |-> op]

\* conditions[key] = value on a dict kept as the sequence of its items
DictSet(d, key, value) ==
    IF \E i \in 1..Len(d) : d[i][1] = key
    THEN [i \in 1..Len(d) |-> IF d[i][1] = key THEN <<key, value>> ELSE d[i]]
    ELSE Append(d, <<key, value>>)

\* the patterns of _extract_where_conditions (119-147), in order
SqlPatterns ==
    <<"equality_lower", "equality", "equality_dq", "equality_numeric",
      "like_lower", "like", "comparison", "in_values", "between">>

\* what one pattern stores for one condition of the clause (152-200)
PatternItems(pattern, c) ==
    IF pattern = "equality_lower" /\ c.form = "eq_lower"
    THEN << <<SqlKey(c.col, ""), UpperVal(c.val)>> >>
    ELSE IF pattern = "equality" /\ c.form = "eq"
    THEN << <<SqlKey(c.col, ""), c.val>> >>
    ELSE IF pattern = "equality_dq" /\ c.form = "eq_dq"
    THEN << <<SqlKey(c.col, ""), c.val>> >>
    ELSE IF pattern = "equality_numeric" /\ c.form = "eq_num"
    THEN << <<SqlKey(c.col, ""), c.val>> >>
    ELSE IF pattern = "like_lower" /\ c.form = "like_lower"
    THEN << <<SqlKey(c.col, ""), UpperVal(c.val)>> >>
    ELSE IF pattern = "like" /\ c.form = "like"
    THEN << <<SqlKey(c.col, ""), c.val>> >>
    ELSE IF pattern = "comparison" /\ c.form = "cmp"
    THEN << <<SqlKey(c.col, c.op), c.val>> >>
    ELSE IF pattern = "comparison" /\ c.form = "eq"
    THEN << <<SqlKey(c.col, "="), c.val>> >>
    ELSE IF pattern = "in_values" /\ c.form = "in" /\ c.val.v # <<>>
    THEN LET clean == IF c.col = "UF_Cliente" THEN UpperVal(c.val) ELSE c.val
         IN  << <<SqlKey(c.col, ""),
                  IF Len(clean.v) > 1 THEN clean
                  ELSE [k |-> "str", v |-> clean.v]>> >>
    ELSE IF pattern = "between" /\ c.form = "between"
    THEN << <<SqlKey(c.col, ">="), c.val>>, <<SqlKey(c.col, "<="), c.val2>> >>
    ELSE <<>>

RECURSIVE StoreItems(_, _, _)
StoreItems(conditions, items, i) ==
    IF i > Len(items) THEN conditions
    ELSE StoreItems(DictSet(conditions, items[i][1], items[i][2]), items, i + 1)

\* the two loops of _extract_where_conditions: pattern k, condition j
RECURSIVE PatternLoop(_, _, _, _)
PatternLoop(conds, k, j, conditions) ==
    IF k > Len(SqlPatterns) THEN conditions
    ELSE IF j > Len(conds) THEN PatternLoop(conds, k + 1, 1, conditions)
    ELSE PatternLoop(conds, k, j + 1,
             StoreItems(conditions, PatternItems(SqlPatterns[k], conds[j]), 1))

\* _extract_where_conditions(sql_query)
ExtractWhereConditions(q) ==
    IF ~q.where THEN <<>> ELSE PatternLoop(q.conds, 1, 1, <<>>)

\* _get_empty_filter_structure()
Categories == <<"periodo", "regiao", "cliente", "produto", "representante">>

CategoryFields(category) ==
    IF category = "regiao" THEN <<"UF_Cliente", "Municipio_Cliente">>
    ELSE IF category = "cliente" THEN <<"Cod_Cliente", "Cod_Segmento_Cliente">>
    ELSE IF category = "produto"
    THEN <<"Cod_Familia_Produto", "Cod_Grupo_Produto", "Cod_Linha_Produto",
           "Des_Linha_Produto">>
    ELSE IF category = "representante"
    THEN <<"Cod_Vendedor", "Cod_Regiao_Vendedor">>
    ELSE <<>>

EmptyFilterStructure ==
    [category \in Range(Categories) |->
        [field \in Range(CategoryFields(category)) |-> NoneVal]]

\* the columns whose lower-cased name holds 'data', 'periodo', 'mes' or 'ano'
\* (extractor.py 221), among the columns of column_mapping
TemporalColumns == {"Data", "periodo", "mes", "ano"}

\* column_mapping (29-66) followed by _determine_target_field (383-441):
\* the category and the field of a column, "" when there is none
ColumnTarget(col) ==
    IF col \in {"UF_Cliente", "estado"}
    THEN [category |-> "regiao", field |-> "UF_Cliente"]
    ELSE IF col \in {"Municipio_Cliente", "cidade"}
    THEN [category |-> "regiao", field |-> "Municipio_Cliente"]
    ELSE IF col \in {"Cod_Cliente", "cliente"}
    THEN [category |-> "cliente", field |-> "Cod_Cliente"]
    ELSE IF col = "Cod_Segmento_Cliente"
    THEN [category |-> "cliente", field |-> "Cod_Segmento_Cliente"]
    ELSE IF col \in {"Cod_Familia_Produto", "familia"}
    THEN [category |-> "produto", field |-> "Cod_Familia_Produto"]
    ELSE IF col \in {"Cod_Grupo_Produto", "grupo"}
    THEN [category |-> "produto", field |-> "Cod_Grupo_Produto"]
    ELSE IF col \in {"Cod_Linha_Produto", "linha"}
    THEN [category |-> "produto", field |-> "Cod_Linha_Produto"]
    ELSE IF col = "Des_Linha_Produto"
    THEN [category |-> "produto", field |-> "Des_Linha_Produto"]
    ELSE IF col = "produto" THEN [category |-> "produto", field |-> ""]
    ELSE IF col \in {"Cod_Vendedor", "vendedor", "representante"}
    THEN [category |-> "representante", field |-> "Cod_Vendedor"]
    ELSE IF col = "Cod_Regiao_Vendedor"
    THEN [category |-> "representante", field |-> "Cod_Regiao_Vendedor"]
    ELSE [category |-> "", field |-> ""]

\* _process_field_value(value, field_name)
ProcessFieldValue(value, field_name) ==
    IF value.k = "list" THEN value
    ELSE IF field_name = "UF_Cliente" THEN UpperVal(value)
    ELSE value

\* the key of a temporal condition as the code writes it, f"{column}_{op}"
TemporalKey(key) ==
    IF key.col # "Data" THEN key.col
    ELSE IF key.op = "" THEN "Data"
    ELSE IF key.op = ">=" THEN "Data_>="
    ELSE IF key.op = "<" THEN "Data_<"
    ELSE IF key.op = "<=" THEN "Data_<="
    ELSE IF key.op = ">" THEN "Data_>"
    ELSE IF key.op = "=" THEN "Data_="
    ELSE "Data_!="

\* the date string of a temporal condition; a list is no date string
TemporalValue(value) ==
    IF value.k = "str" /\ value.v # <<>> THEN value.v[1] ELSE <<>>

\* the loop of _map_sql_to_json over other_conditions (231-245)
RECURSIVE MapOthers(_, _, _)
MapOthers(others, i, json) ==
    IF i > Len(others) THEN json
    ELSE LET t == ColumnTarget(others[i][1].col)
         IN  IF t.category # "" /\ t.field # ""
             THEN MapOthers(others, i + 1,
                      [json EXCEPT ![t.category] =
                          SetKey(json[t.category], t.field,
                                 ProcessFieldValue(others[i][2], t.field))])
             ELSE MapOthers(others, i + 1, json)

\* a value that is not None, [] or ""; a period holds date strings and dicts
NonEmptyField(category, value) ==
    IF category = "periodo" THEN value # <<>> ELSE ~IsEmpty(value)

\* _clean_empty_fields(json_structure); the entry 'error' is a string
CleanEmptyFields(json) ==
    LET nonEmpty(category) ==
            IF category = "error" THEN json[category]
            ELSE [field \in {f \in DOMAIN json[category] :
                               NonEmptyField(category, json[category][f])}
                     |-> json[category][field]]
    IN  [category \in {c \in DOMAIN json : nonEmpty(c) # <<>>}
            |-> nonEmpty(category)]

\* _map_sql_to_json(sql_conditions)
MapSqlToJson(conditions) ==
    LET temporal == SelectSeq(conditions,
                        LAMBDA it : it[1].col \in TemporalColumns)
        others == SelectSeq(conditions,
                        LAMBDA it : it[1].col \notin TemporalColumns)
        items == [i \in 1..Len(temporal) |->
                     <<TemporalKey(temporal[i][1]),
                       TemporalValue(temporal[i][2])>>]
        json == IF temporal # <<>>
                THEN [EmptyFilterStructure EXCEPT
                         !["periodo"] = ProcessTemporalConditions(items)]
                ELSE EmptyFilterStructure
    IN  CleanEmptyFields(MapOthers(others, 1, json))

\* extract_filters_from_sql(sql_query): an exception inside is caught and
\* reported under 'error'
ExtractFiltersFromSql(q) ==
    IF q.kind = "none" THEN [error |-> <<"Erro ao extrair filtros do SQL">>]
    ELSE IF ExtractWhereConditions(q) = <<>> THEN EmptyFilterStructure
    ELSE MapSqlToJson(ExtractWhereConditions(q))

\* _merge_filter_structures with no test for the 'error' entry
MergeFilterStructuresKeepsError(base, new_filters) ==
    [category \in DOMAIN base \cup DOMAIN new_filters |->
        IF category \notin DOMAIN new_filters THEN base[category]
        ELSE IF category \notin DOMAIN base THEN new_filters[category]
        ELSE LET fields == new_filters[category]
                 set == {f \in DOMAIN fields :
                           NonEmptyField(category, fields[f])}
             IN  [f \in DOMAIN base[category] \cup set |->
                    IF f \in set THEN fields[f] ELSE base[category][f]]]

\* _merge_filter_structures(base, new_filters)
MergeFilterStructures(base, new_filters) ==
    [category \in DOMAIN base \cup (DOMAIN new_filters \ {"error"}) |->
        IF category \notin DOMAIN new_filters THEN base[category]
        ELSE IF category \notin DOMAIN base THEN new_filters[category]
        ELSE LET fields == new_filters[category]
                 set == {f \in DOMAIN fields :
                           NonEmptyField(category, fields[f])}
             IN  [f \in DOMAIN base[category] \cup set |->
                    IF f \in set THEN fields[f] ELSE base[category][f]]]

RECURSIVE CombineQueries(_, _, _)
CombineQueries(sql_queries, i, combined) ==
    IF i > Len(sql_queries) THEN combined
    ELSE CombineQueries(sql_queries, i + 1,
             MergeFilterStructures(combined,
                                   ExtractFiltersFromSql(sql_queries[i])))

\* extract_filters_from_multiple_queries(sql_queries)
ExtractFiltersFromMultipleQueries(sql_queries) ==
    CleanEmptyFields(CombineQueries(sql_queries, 1, EmptyFilterStructure))

\* _convert_sql_json_to_context(sql_filters): the context as the sequence of
\* its items in insertion order
ConvertSqlJsonToContext(sql_filters) ==
    LET periodo == IF "periodo" \in DOMAIN sql_filters
                   THEN PeriodoToContext(sql_filters["periodo"])
                   ELSE EmptyDict
        dates == SelectSeq(<<"Data_>=", "Data_<", "Data_<=", "Data_>", "Data",
                             "periodo">>,
                           LAMBDA k : k \in DOMAIN periodo)
        fieldsOf(category) ==
            IF category \in DOMAIN sql_filters
            THEN SelectSeq(CategoryFields(category),
                     LAMBDA f : /\ f \in DOMAIN sql_filters[category]
                                /\ ~IsEmpty(sql_filters[category][f]))
            ELSE <<>>
        items(category) ==
            [i \in 1..Len(fieldsOf(category)) |->
                <<fieldsOf(category)[i],
                  sql_filters[category][fieldsOf(category)[i]]>>]
    IN  [i \in 1..Len(dates) |-> <<dates[i], DateStr(periodo[dates[i]])>>]
        \o items("regiao") \o items("cliente") \o items("produto")
        \o items("representante")

\* a turn that leaves the context as it is: return contexto_atual, [INFO ...]
KeptContext(contexto_atual, info, filters) ==
    [out |-> contexto_atual, chg |-> <<Chg("INFO", info)>>,
     filters |-> filters, inp |-> contexto_atual]

\* the result of the merge and its change list (manager.py 290-302)
MergedContext(sql_filters, m) ==
    [out |-> m.res,
     chg |-> IF m.chg # <<>>
             THEN <<ChgN("SQL", Len(m.chg))>> \o m.chg
             ELSE <<Chg("INFO", "sem mudancas")>>,
     filters |-> sql_filters, inp |-> m.inp]

\* conversion of the extracted filters and merge into the context
ApplySqlContext(contexto_atual, sql_filters, sql_context) ==
    IF /\ \E c \in DOMAIN sql_filters : sql_filters[c] # <<>>
       /\ sql_context # <<>>
    THEN MergedContext(sql_filters,
                       ApplyIntelligentMerge(contexto_atual, sql_context))
    ELSE KeptContext(contexto_atual, "nenhum filtro", sql_filters)

ApplySqlFilters(contexto_atual, sql_filters) ==
    ApplySqlContext(contexto_atual, sql_filters,
                    ConvertSqlJsonToContext(sql_filters))

\* processar_filtros_apenas_sql(sql_queries, contexto_atual, df): what it
\* returns (.out, .chg), the filters it extracted, and what it leaves in
\* the caller's context (.inp)
ProcessarFiltrosApenasSql(sql_queries, contexto_atual) ==
    IF sql_queries = <<>>
    THEN KeptContext(contexto_atual, "sem query", EmptyDict)
    ELSE ApplySqlFilters(contexto_atual,
                         ExtractFiltersFromMultipleQueries(sql_queries))

-----------------------------------------------------------------------------
(* The engine as its callers use it.  A call works on the caller's context  *)
(* object ctx and returns a new context; the caller then either keeps the   *)
(* result (agent.persistent_context = context, app.py 1398-1402) or drops   *)
(* it (the except branch, app.py 1413-1423) and goes on with its own object.*)

MaxNew == 2     \* fields in one new-filter set

NewValues(f) ==
    CASE f = "Municipio_Cliente" -> {Str("A"), Str("B"), Lst(<<"A", "B">>)}
      [] f = "UF_Cliente"        -> {Str("A")}
      [] f = "Data"              -> {Str("d1"), Str("d2")}
      [] f = "Data_>="           -> {Str("d1"), Str("d2")}
      [] f = "Data_<"            -> {Str("d1")}
      [] f = "Cod_Vendedor"      -> {Str("B"), Lst(<<"A">>)}

NewFields ==
    {"Municipio_Cliente", "UF_Cliente", "Data", "Data_>=", "Data_<",
     "Cod_Vendedor"}

NewPairs == UNION {{<<f, val>> : val \in NewValues(f)} : f \in NewFields}

\* The new-filter sets: up to MaxNew fields, each once, in any key order.
NewFilterSets ==
    UNION {{s \in [1..n -> NewPairs] :
              \A i, j \in 1..n : i # j => s[i][1] # s[j][1]} : n \in 0..MaxNew}

Utterances ==
    [clear : BOOLEAN, terms : {{}, {"cidade"}, {"temporal"}, {"todos"}}]

NoCall == [op |-> "none"]

NoPeriod == [op |-> "none"]

\* self.dataset_context = None
NoDatasetContext == [none |-> TRUE]

\* system dates, all later than the data
StartClock == [y |-> FirstYear + NumYears, m |-> 3, d |-> 10]

WallClocks == {StartClock, [StartClock EXCEPT !.m = 11]}

Init ==
    /\ ctx = EmptyCtx
    /\ call = NoCall
    /\ period = NoPeriod
    /\ dataset_context = NoDatasetContext
    /\ wall_clock = StartClock
    /\ runs = <<>>
    /\ last_context = EmptyCtx
    /\ disabled_filters = [name \in {} |-> [k |-> "none", v |-> <<>>]]

\* apply_smart_filter_replacement(ctx, new_filters)
MergeCall(new_filters) ==
    /\ call.op = "none"
    /\ LET m == ApplyIntelligentMerge(ctx, new_filters)
       IN  /\ ctx' = m.inp
           /\ call' = [op |-> "merge", in |-> ctx, new |-> new_filters,
                       out |-> m.res, chg |-> m.chg]
    /\ UNCHANGED <<period, temporalVars, sessionVars>>

\* auto_resolve_filter_conflicts(ctx)
ResolveCall ==
    /\ call.op = "none"
    /\ LET r == AutoResolveConflicts(ctx)
       IN  /\ call' = [op |-> "resolve", in |-> ctx, out |-> r.res,
                       chg |-> r.chg]
           /\ UNCHANGED <<ctx, period, temporalVars, sessionVars>>

\* detect_and_apply_filter_removal(user_query, ctx)
RemovalCall(utterance) ==
    /\ call.op = "none"
    /\ LET r == DetectAndApplyFilterRemoval(utterance, ctx)
       IN  /\ call' = [op |-> "removal", in |-> ctx, utt |-> utterance,
                       out |-> r.res, chg |-> r.chg, removed |-> r.removed,
                       det |-> r.det]
           /\ UNCHANGED <<ctx, period, temporalVars, sessionVars>>

\* the caller stores the returned context
KeepResult ==
    /\ call.op # "none"
    /\ ctx' = call.out
    /\ call' = NoCall
    /\ UNCHANGED <<period, temporalVars, sessionVars>>

\* the caller drops the returned context and keeps its own object
DiscardResult ==
    /\ call.op # "none"
    /\ call' = NoCall
    /\ UNCHANGED <<ctx, period, temporalVars, sessionVars>>

Next ==
    \/ \E new_filters \in NewFilterSets : MergeCall(new_filters)
    \/ ResolveCall
    \/ \E utterance \in Utterances : RemovalCall(utterance)
    \/ KeepResult
    \/ DiscardResult

Spec == Init /\ [][Next]_vars

-----------------------------------------------------------------------------
(* Period round trip: a structured period is converted to context dates     *)
(* (manager) and the dates are classified again (extractor).                *)

\* the structured periods the extractor emits: a month, a range of months in
\* one year (January to December is the full year), a range across years
StructuredPeriods ==
    {MesAno(m, y) : m \in 1..12, y \in Years}
    \cup {[inicio |-> MesAno(m1, y), fim |-> MesAno(m2, y)] :
            <<m1, m2, y>> \in {t \in (1..12) \X (1..12) \X Years : t[1] < t[2]}}
    \cup {[inicio |-> MesAno(m1, y1), fim |-> MesAno(m2, y2)] :
            <<m1, y1, m2, y2>> \in {t \in (1..12) \X Years \X (1..12) \X Years :
                                      t[2] < t[4]}}

PeriodToInterval(p) ==
    /\ period.op = "none"
    /\ period' = [op |-> "interval", p |-> p, context |-> PeriodoToContext(p)]
    /\ UNCHANGED <<engineVars, temporalVars, sessionVars>>

ClassifyInterval ==
    /\ period.op = "interval"
    /\ period' = [op |-> "classified", p |-> period.p,
                  context |-> period.context,
                  back |-> ProcessTemporalConditions(
                               TemporalItems(period.context))]
    /\ UNCHANGED <<engineVars, temporalVars, sessionVars>>

NextPeriod ==
    /\ period.op = "classified"
    /\ period' = NoPeriod
    /\ UNCHANGED <<engineVars, temporalVars, sessionVars>>

SpecPeriodNext ==
    \/ \E p \in StructuredPeriods : PeriodToInterval(p)
    \/ ClassifyInterval
    \/ NextPeriod

SpecPeriod == Init /\ [][SpecPeriodNext]_vars

-----------------------------------------------------------------------------
(* The SQL path: the queries of a turn are processed against the context    *)
(* and the caller keeps or drops the result.                                *)

MaxQueries == 2

SqlDate(m, d) == DateStr(FmtDate(FirstYear, m, d))

\* the SQL texts of the turns
SqlQueries ==
    << NotAString,
       NoWhere,
       Where(<<Cond("other", "Valor", ">", Str("7"), NoneVal)>>),
       Where(<<Cond("eq", "UF_Cliente", "=", Str("a"), NoneVal)>>),
       Where(<<Cond("eq_lower", "Municipio_Cliente", "=", Str("a"), NoneVal)>>),
       Where(<<Cond("in", "Municipio_Cliente", "IN", Lst(<<"A", "B">>),
                    NoneVal)>>),
       Where(<<Cond("cmp", "Data", ">=", SqlDate(7, 1), NoneVal),
               Cond("cmp", "Data", "<", SqlDate(8, 1), NoneVal)>>),
       Where(<<Cond("eq", "Data", "=", SqlDate(8, 15), NoneVal)>>),
       Where(<<Cond("eq", "Cod_Vendedor", "=", Str("B"), NoneVal)>>) >>

\* the lists of at most n queries, each query by its place in SqlQueries
RECURSIVE QueryLists(_)
QueryLists(n) ==
    IF n = 0 THEN {<<>>}
    ELSE QueryLists(n - 1)
         \cup {Append(l, q) : l \in {x \in QueryLists(n - 1) : Len(x) = n - 1},
                              q \in 1..Len(SqlQueries)}

\* processar_filtros_apenas_sql(sql_queries, ctx, df)
\* the caller's context and the returned values after the call
SqlReturn(sql_queries, r) ==
    /\ ctx' = r.inp
    /\ call' = [op |-> "sql", in |-> ctx, sqls |-> sql_queries,
                filters |-> r.filters, out |-> r.out, chg |-> r.chg]

\* the queries of the turn, by their places in SqlQueries
SqlQueryList(picked) == [i \in 1..Len(picked) |-> SqlQueries[picked[i]]]

SqlCall(picked) ==
    /\ call.op = "none"
    /\ SqlReturn(SqlQueryList(picked),
                 ProcessarFiltrosApenasSql(SqlQueryList(picked), ctx))
    /\ UNCHANGED <<period, temporalVars, sessionVars>>

SpecSqlNext ==
    \/ \E picked \in QueryLists(MaxQueries) : SqlCall(picked)
    \/ KeepResult
    \/ DiscardResult

SpecSql == Init /\ [][SpecSqlNext]_vars

-----------------------------------------------------------------------------
(* The session: src/app.py with the filter controls of the sidebar          *)
(* (src/src/filters/ui/sidebar.py).  Every interaction reruns the script:   *)
(* the sidebar is drawn from last_context, then the input is handled.       *)

MaxTurnQueries == 1

\* The filter identifiers f"{campo}:{valor}" and
\* f"Data_range:{start_date}_{end_date}": a set of identifiers that holds at
\* most one per field is the function from the text before the colon to
\* the content after it.
RangeName == "Data_range"

\* the content of the identifier of a range
RangeId(start_date, end_date) == <<start_date, end_date>>

\* filter_id in st.session_state.disabled_filters
IsDisabled(disabled, name, content) ==
    name \in DOMAIN disabled /\ disabled[name] = content

RangeKeys == {"Data_>=", "Data_<"}

\* 'Data_>=' in context and 'Data_<' in context
HasBothBounds(context) == RangeKeys \subseteq DOMAIN context

\* start_date and end_date
BoundsTruthy(context) ==
    Truthy(context["Data_>="]) /\ Truthy(context["Data_<"])

\* the fields the sidebar always shows
UserRelevantFields ==
    {"Data", "Data_>=", "Data_<", "UF_Cliente", "Municipio_Cliente",
     "Cod_Cliente", "Cod_Segmento_Cliente", "Cod_Familia_Produto",
     "Cod_Grupo_Produto", "Cod_Linha_Produto", "Des_Linha_Produto",
     "Cod_Vendedor", "Cod_Regiao_Vendedor"}

\* filter_user_friendly_context(context_dict): the keys of the contexts here
\* carry no technical prefix or keyword, so every key is kept
FilterUserFriendlyContext(context_dict) ==
    [k \in {f \in DOMAIN context_dict :
              f \in UserRelevantFields \/ f \notin {"merge_timestamp"}}
        |-> context_dict[k]]

\* the complete range of a context, if it has one
CompleteRange(context_dict) ==
    HasBothBounds(context_dict) /\ BoundsTruthy(context_dict)

\* the identifiers of a context over the given keys, with the range
\* identifier when with_range
IdsOver(context_dict, keys, with_range) ==
    [name \in keys \cup (IF with_range THEN {RangeName} ELSE {}) |->
        IF name = RangeName
        THEN RangeId(context_dict["Data_>="], context_dict["Data_<"])
        ELSE context_dict[name]]

\* _cleanup_obsolete_filters: current_filter_ids
CurrentFilterIds(context_dict) ==
    IdsOver(context_dict, DOMAIN context_dict \ RangeKeys,
            CompleteRange(context_dict))

\* create_enhanced_filter_manager up to the controls: nothing is done for an
\* empty context, else the disabled identifiers of filters no longer in the
\* context are dropped
CleanupObsoleteFilters(context_dict, disabled) ==
    IF context_dict = EmptyCtx THEN disabled
    ELSE [name \in {n \in DOMAIN disabled :
                      IsDisabled(CurrentFilterIds(context_dict), n, disabled[n])}
            |-> disabled[name]]

\* the checkboxes drawn: one for a complete range, else one per temporal
\* key; one per key of the other categories
ControlIds(context_dict) ==
    IF CompleteRange(context_dict)
    THEN IdsOver(context_dict,
                 DOMAIN context_dict \ (RangeKeys \cup {"Data"}), TRUE)
    ELSE IdsOver(context_dict, DOMAIN context_dict, FALSE)

\* JSONFilterManager.aplicar_filtros_desabilitados(contexto, disabled)
AplicarFiltrosDesabilitados(contexto, filtros_desabilitados) ==
    IF DOMAIN filtros_desabilitados = {} THEN contexto
    ELSE [campo \in
            {c \in DOMAIN contexto :
               IF c \in RangeKeys /\ HasBothBounds(contexto)
               THEN /\ BoundsTruthy(contexto)
                    /\ ~IsDisabled(filtros_desabilitados, RangeName,
                                   RangeId(contexto["Data_>="],
                                           contexto["Data_<"]))
               ELSE ~IsDisabled(filtros_desabilitados, c, contexto[c])}
          |-> contexto[campo]]

\* the name of the identifier under which the sidebar toggles a key
IdNameOfKey(context, key) ==
    IF key \in RangeKeys /\ CompleteRange(context) THEN RangeName ELSE key

\* _sincronizar_contexto_agente: an empty agent context is restored from
\* the session
SincronizarContextoAgente(persistent, last) ==
    IF last # EmptyCtx /\ persistent = EmptyCtx THEN last ELSE persistent

\* the context handed to the agent for the turn (app.py 1273-1281)
HandedContext(current_context, disabled) ==
    IF DOMAIN disabled # {} /\ current_context # EmptyCtx
    THEN AplicarFiltrosDesabilitados(current_context, disabled)
    ELSE current_context

\* a returned context as the dict it is: its items in insertion order, the
\* order in which the merge into {} stored them
ItemsInOrder(pairs, out) ==
    LET kept(p) == p[1] \in DOMAIN out
        value(p) == <<p[1], out[p[1]]>>
    IN  [i \in 1..Len(SelectSeq(pairs, kept))
            |-> value(SelectSeq(pairs, kept)[i])]

\* debug_info['extracted_filters'] (app.py 1316-1332)
ExtractedContext(r) == ItemsInOrder(ConvertSqlJsonToContext(r.filters), r.out)

\* validate_filter_consistency, and auto_resolve_filter_conflicts when the
\* context is not valid (app.py 1379-1389)
ValidateAndResolve(context) ==
    IF ValidateContextConsistency(context) THEN context
    ELSE AutoResolveConflicts(context).res

\* the turn as a record: the stored context before it, the disabled
\* identifiers, the context handed to the agent, the extracted filters, the
\* merged context and the context stored at the end
TurnRecord(before, disabled, handed, extracted) ==
    [op |-> "turn", before |-> before, disabled |-> disabled,
     handed |-> handed, new |-> extracted,
     merged |-> ApplyIntelligentMerge(handed, extracted).res,
     out |-> ValidateAndResolve(ApplyIntelligentMerge(handed, extracted).res)]

\* the extraction of app.py 1316-1332 for each list of queries a turn runs:
\* no extracted_filters entry is made for an empty list
ExtractedFilters ==
    [picked \in QueryLists(MaxTurnQueries) |->
        IF picked = <<>> THEN <<>>
        ELSE ExtractedContext(
                 ProcessarFiltrosApenasSql(SqlQueryList(picked), EmptyCtx))]

\* _handle_user_input(prompt, agent), the agent having run the queries picked
HandleUserInput(before, disabled, picked) ==
    TurnRecord(before, disabled, HandedContext(before, disabled),
               ExtractedFilters[picked])

\* the checkboxes of the sidebar as it is drawn now
Controls == ControlIds(FilterUserFriendlyContext(last_context))

\* the disabled identifiers once the sidebar is drawn
CleanedDisabled ==
    CleanupObsoleteFilters(FilterUserFriendlyContext(last_context),
                           disabled_filters)

\* st.session_state.disabled_filters = set()
NoDisabledFilters == [name \in {} |-> NoneVal]

\* what the rerun adds to the record of the turn: the context the sidebar
\* was drawn from, and whether the rerun before it was a clear-all
RerunRecord(shown, cleared) == [shown |-> shown, cleared |-> cleared]

\* a rerun of the script with a prompt: the sidebar, then the handler
Turn(picked) ==
    /\ disabled_filters' = CleanedDisabled
    /\ call' = HandleUserInput(SincronizarContextoAgente(ctx, last_context),
                               disabled_filters', picked)
               @@ RerunRecord(FilterUserFriendlyContext(last_context),
                              call.op = "clear")
    /\ ctx' = call'.out
    /\ last_context' = call'.out
    /\ UNCHANGED <<period, temporalVars>>

\* a rerun of the script with a checkbox unticked
DisableFilter(name) ==
    /\ name \in DOMAIN Controls
    /\ ~IsDisabled(disabled_filters, name, Controls[name])
    /\ disabled_filters' =
          [n \in DOMAIN CleanedDisabled \cup {name} |->
              IF n = name THEN Controls[name] ELSE CleanedDisabled[n]]
    /\ UNCHANGED <<engineVars, last_context, period, temporalVars>>

\* a rerun of the script with a checkbox ticked again
EnableFilter(name) ==
    /\ name \in DOMAIN Controls
    /\ IsDisabled(disabled_filters, name, Controls[name])
    /\ disabled_filters' =
          [n \in DOMAIN CleanedDisabled \ {name} |-> CleanedDisabled[n]]
    /\ UNCHANGED <<engineVars, last_context, period, temporalVars>>

\* the button "Limpar Todos os Filtros" of the sidebar, drawn when the
\* context shown is not empty (sidebar.py 546-550); the agent is not touched
ClearAllFilters ==
    /\ FilterUserFriendlyContext(last_context) # EmptyCtx
    /\ disabled_filters' = NoDisabledFilters
    /\ last_context' = EmptyCtx
    /\ call' = [op |-> "clear", by |-> "sidebar"]
    /\ UNCHANGED <<ctx, period, temporalVars>>

\* the button "Limpar" of the chat (app.py 625-653): the context of the
\* agent, the disabled identifiers and last_context are cleared
ClearChat ==
    /\ ctx' = EmptyCtx
    /\ disabled_filters' = NoDisabledFilters
    /\ last_context' = EmptyCtx
    /\ call' = [op |-> "clear", by |-> "chat"]
    /\ UNCHANGED <<period, temporalVars>>

SpecSessionNext ==
    \/ \E picked \in QueryLists(MaxTurnQueries) : Turn(picked)
    \/ \E name \in DOMAIN Controls : DisableFilter(name)
    \/ \E name \in DOMAIN Controls : EnableFilter(name)
    \/ ClearAllFilters
    \/ ClearChat

SpecSession == Init /\ [][SpecSessionNext]_vars

-----------------------------------------------------------------------------
(* Validation and auto-correction on their own: the functions of            *)
(* src/src/filters/core/replacer.py applied to a context given by the       *)
(* caller.                                                                  *)

MaxItems == 2

\* a Python string of several words
Words(ws) == [k |-> "str", v |-> ws]

\* the lists of 1..MaxItems names
NameLists == {Lst([i \in 1..n |-> <<"A", "B", "C", "D">>[i]]) : n \in 1..MaxItems}

\* the values a field of a context given to the validator can hold
GivenValues(f) ==
    CASE f = "Municipio_Cliente" ->
            NameLists \cup {Str("A"), Words(<<"a", "and", "b">>),
                            Words(<<"A", "AND", "B">>), Words(<<"A", ",", "B">>)}
      [] f = "Cod_Cliente" ->
            NameLists \cup {Str("A"), Words(<<"A", "AND", "B">>),
                            Words(<<"a", "and", "b">>)}
      [] f = "UF_Cliente" -> NameLists \cup {Str("A")}
      [] f = "Cod_Segmento_Cliente" -> NameLists
      [] f = "Data" -> NameLists \cup {Str("d1"), Words(<<>>)}
      [] f = "Data_>=" -> {Str("d1")}
      [] f = "Data_<" -> {Str("d2"), Words(<<>>)}

GivenFields ==
    {"Municipio_Cliente", "Cod_Cliente", "UF_Cliente", "Cod_Segmento_Cliente",
     "Data", "Data_>=", "Data_<"}

\* the contexts given: up to three of the fields, each with one of its values
GivenContexts ==
    UNION {{c \in [fs -> UNION {GivenValues(f) : f \in fs}] :
              \A f \in fs : c[f] \in GivenValues(f)} :
           fs \in {x \in SUBSET GivenFields : Cardinality(x) <= 3}}

\* validate_filter_consistency(context)
ValidateCall(context) ==
    /\ call.op = "none"
    /\ call' = [op |-> "validate", in |-> context,
                out |-> context,
                valid |-> ValidateContextConsistency(context),
                problems |-> ValidateProblems(context)]
    /\ UNCHANGED <<ctx, period, temporalVars, sessionVars>>

\* auto_resolve_filter_conflicts(context)
AutoResolveCall(context) ==
    /\ call.op = "none"
    /\ call' = [op |-> "auto_resolve", in |-> context,
                out |-> AutoResolveConflicts(context).res,
                chg |-> AutoResolveConflicts(context).chg]
    /\ UNCHANGED <<ctx, period, temporalVars, sessionVars>>

\* the end of a turn: validation, and auto-correction of a context that is
\* not valid (app.py 1379-1402)
EndOfTurnCall(context) ==
    /\ call.op = "none"
    /\ call' = [op |-> "end_of_turn", in |-> context,
                out |-> ValidateAndResolve(context)]
    /\ UNCHANGED <<ctx, period, temporalVars, sessionVars>>

SpecResolveNext ==
    \/ \E context \in GivenContexts : ValidateCall(context)
    \/ \E context \in GivenContexts : AutoResolveCall(context)
    \/ \E context \in GivenContexts : EndOfTurnCall(context)
    \/ DiscardResult

SpecResolve == Init /\ [][SpecResolveNext]_vars

-----------------------------------------------------------------------------
(* The pruning of the sidebar on its own: _cleanup_obsolete_filters applied *)
(* to a context given by the caller, the disabled identifiers being those   *)
(* of checkboxes the sidebar draws for that context.                        *)

\* the identifiers of the controls named
Unticked(controls, names) == [name \in names |-> controls[name]]

\* what the pruning left of the disabled identifiers
CleanupReturn(context_dict, disabled) ==
    call' = [op |-> "cleanup", shown |-> context_dict,
             before |-> disabled,
             after |-> CleanupObsoleteFilters(context_dict, disabled)]

\* create_enhanced_filter_manager(context_dict) up to the pruning, with the
\* checkboxes named unticked when the sidebar was drawn before
CleanupCall(context, names) ==
    /\ call.op = "none"
    /\ names # {}
    /\ CleanupReturn(FilterUserFriendlyContext(context),
                     Unticked(ControlIds(FilterUserFriendlyContext(context)),
                              names))
    /\ UNCHANGED <<ctx, period, temporalVars, sessionVars>>

SpecSidebarNext ==
    \/ \E context \in GivenContexts :
          \E names \in
                SUBSET DOMAIN ControlIds(FilterUserFriendlyContext(context)) :
             CleanupCall(context, names)
    \/ DiscardResult

SpecSidebar == Init /\ [][SpecSidebarNext]_vars

-----------------------------------------------------------------------------
(* Extraction of the temporal filter of one query: the WHERE clause holds   *)
(* conditions on the date column only, and the extraction runs as in        *)
(* app.py 1316-1332, on an empty context.                                   *)

\* the dates written in the queries: the first, the 15th, the 28th and the
\* last day of every month of the data
QueryDates ==
    {[y |-> y, m |-> m, d |-> d] :
        <<y, m, d>> \in {t \in Years \X (1..12) \X {1, 15, 28, 29, 30, 31} :
                           \/ t[3] \in {1, 15, 28}
                           \/ t[3] = DaysInMonth(t[1], t[2])}}

\* a before b
Before(a, b) ==
    \/ a.y < b.y
    \/ a.y = b.y /\ a.m < b.m
    \/ a.y = b.y /\ a.m = b.m /\ a.d < b.d

\* the date as the string of the SQL text
DateValue(dt) == DateStr(FmtDate(dt.y, dt.m, dt.d))

\* the temporal WHERE clauses:
\*   exact    Data = 'a'            between  Data BETWEEN 'a' AND 'b'
\*   closed   Data >= 'a' AND Data <= 'b'
\*   open     Data >= 'a' AND Data < 'b'
DateQueryKinds == {"exact", "closed", "between", "open"}

DateQuery(kind, a, b) ==
    IF kind = "exact"
    THEN Where(<<Cond("eq", "Data", "=", DateValue(a), NoneVal)>>)
    ELSE IF kind = "between"
    THEN Where(<<Cond("between", "Data", "BETWEEN", DateValue(a),
                      DateValue(b))>>)
    ELSE Where(<<Cond("cmp", "Data", ">=", DateValue(a), NoneVal),
                 Cond("cmp", "Data", IF kind = "closed" THEN "<=" ELSE "<",
                      DateValue(b), NoneVal)>>)

\* the structured period of the filters extracted, {} when there is none
PeriodoOf(filters) ==
    IF "periodo" \in DOMAIN filters THEN filters["periodo"] ELSE EmptyDict

\* what the extraction returned for the query
ExtractReturn(kind, a, b, r) ==
    call' = [op |-> "extract", kind |-> kind, a |-> a, b |-> b,
             periodo |-> PeriodoOf(r.filters), out |-> r.out]

\* processar_filtros_apenas_sql([query], {}, df) for a temporal query
ExtractCall(kind, a, b) ==
    /\ call.op = "none"
    /\ kind = "exact" => a = b
    /\ kind # "exact" => Before(a, b) /\ a.d \in {1, 15}
    /\ ExtractReturn(kind, a, b,
           ProcessarFiltrosApenasSql(<<DateQuery(kind, a, b)>>, EmptyCtx))
    /\ UNCHANGED <<ctx, period, temporalVars, sessionVars>>

SpecExtractNext ==
    \/ \E kind \in DateQueryKinds, a, b \in QueryDates : ExtractCall(kind, a, b)
    \/ DiscardResult

SpecExtract == Init /\ [][SpecExtractNext]_vars

-----------------------------------------------------------------------------
(* Temporal expressions of the utterance: src/src/text_normalizer.py.  The  *)
(* text is the sequence of its words: a word, a number (its digits), or a   *)
(* word and a number joined by a slash ("julho/2015").                      *)

Word(s) == [w |-> s, d |-> <<>>]
Num(ds) == [w |-> "", d |-> ds]
Slash(s, ds) == [w |-> s, d |-> ds]

IsWord(t) == t.w # "" /\ t.d = <<>>
IsNum(t) == t.w = "" /\ t.d # <<>>
IsYear4(t) == t.w = "" /\ Len(t.d) = 4
IsSlash(t) == t.w # "" /\ Len(t.d) = 4

\* month_mapping (text_normalizer.py 272-285); 0 when the word is no month
MonthMapping(w) ==
    IF w \in {"janeiro", "jan"} THEN 1
    ELSE IF w \in {"fevereiro", "fev"} THEN 2
    ELSE IF w \in {"março", "mar", "marco"} THEN 3
    ELSE IF w \in {"abril", "abr"} THEN 4
    ELSE IF w \in {"maio", "mai"} THEN 5
    ELSE IF w \in {"junho", "jun"} THEN 6
    ELSE IF w \in {"julho", "jul"} THEN 7
    ELSE IF w \in {"agosto", "ago"} THEN 8
    ELSE IF w \in {"setembro", "set", "sep"} THEN 9
    ELSE IF w \in {"outubro", "out", "oct"} THEN 10
    ELSE IF w \in {"novembro", "nov"} THEN 11
    ELSE IF w \in {"dezembro", "dez", "dec"} THEN 12
    ELSE 0

\* the elements of a pattern over words
Lit(ws) == [k |-> "lit", ws |-> ws]
AnyW == [k |-> "w", ws |-> {}]
Year4 == [k |-> "y", ws |-> {}]
Number == [k |-> "n", ws |-> {}]
SlashW == [k |-> "s", ws |-> {}]

ElemMatches(t, e) ==
    IF e.k = "lit" THEN IsWord(t) /\ t.w \in e.ws
    ELSE IF e.k = "w" THEN IsWord(t) \/ IsNum(t)
    ELSE IF e.k = "y" THEN IsYear4(t)
    ELSE IF e.k = "n" THEN IsNum(t)
    ELSE IsSlash(t)

MatchAt(text, i, pat) ==
    /\ i >= 1
    /\ i + Len(pat) - 1 <= Len(text)
    /\ \A j \in 1..Len(pat) : ElemMatches(text[i + j - 1], pat[j])

MatchPositions(text, pat) == {i \in 1..Len(text) : MatchAt(text, i, pat)}

\* re.search: the position of the leftmost match, 0 when there is none
Search(text, pat) ==
    IF MatchPositions(text, pat) = {} THEN 0
    ELSE CHOOSE i \in MatchPositions(text, pat) :
             \A j \in MatchPositions(text, pat) : i <= j

\* [start of the month, start of the next month), text_normalizer.py 311-324
MonthEntities(month_num, year_num) ==
    ("Data_>=" :> FmtDate(year_num, month_num, 1))
    @@ ("Data_<" :> NextMonthStart(month_num, year_num))

\* month_year_patterns (289-297): the words before the month, and where the
\* month and the year stand
MonthYearPatterns ==
    << [pat |-> <<AnyW, Lit({"de"}), Year4>>,  m |-> 1, y |-> 3],
       [pat |-> <<AnyW, Year4>>,               m |-> 1, y |-> 2],
       [pat |-> <<SlashW>>,                    m |-> 1, y |-> 1],
       [pat |-> <<Lit({"em"}), AnyW, Lit({"de"}), Year4>>,      m |-> 2, y |-> 4],
       [pat |-> <<Lit({"no"}), AnyW, Lit({"de"}), Year4>>,      m |-> 2, y |-> 4],
       [pat |-> <<Lit({"durante"}), AnyW, Lit({"de"}), Year4>>, m |-> 2, y |-> 4] >>

\* the matches of one month_year pattern whose month is recognised
ValidMonthYear(text, p) ==
    {i \in MatchPositions(text, p.pat) : MonthMapping(text[i + p.m - 1].w) > 0}

\* the loop over month_year_patterns (299-334), from pattern k on
RECURSIVE MonthYearLoop(_, _, _)
MonthYearLoop(text, k, entities) ==
    IF k > Len(MonthYearPatterns) THEN entities
    ELSE LET p == MonthYearPatterns[k]
             valid == ValidMonthYear(text, p)
         IN  IF valid = {} THEN MonthYearLoop(text, k + 1, entities)
             ELSE LET i == CHOOSE a \in valid : \A b \in valid : a <= b
                  IN  MonthYearLoop(text, k + 1,
                          MonthEntities(MonthMapping(text[i + p.m - 1].w),
                                        ParseInt(text[i + p.y - 1].d)))

Periodos == {"período", "periodo", "períodos", "periodos"}

\* between_patterns (338-347) with the places of the start month, the end
\* month and the year used (364-391)
BetweenPatterns ==
    << [pat |-> <<Lit({"entre"}), AnyW, Lit({"e"}), AnyW, Lit({"de"}), Year4>>,
        s |-> 2, e |-> 4, y |-> 6],
       [pat |-> <<Lit({"entre"}), SlashW, Lit({"e"}), SlashW>>,
        s |-> 2, e |-> 4, y |-> 2],
       [pat |-> <<Lit({"entre"}), Lit({"os"}), Lit(Periodos), Lit({"de"}),
                  AnyW, Lit({"e"}), AnyW, Lit({"de"}), Year4>>,
        s |-> 5, e |-> 7, y |-> 9],
       [pat |-> <<Lit({"entre"}), Lit({"os"}), Lit({"meses"}), Lit({"de"}),
                  AnyW, Lit({"e"}), AnyW, Lit({"de"}), Year4>>,
        s |-> 5, e |-> 7, y |-> 9],
       [pat |-> <<Lit({"do"}), Lit({"período", "periodo"}), Lit({"de"}),
                  AnyW, Lit({"a"}), AnyW, Lit({"de"}), Year4>>,
        s |-> 4, e |-> 6, y |-> 8],
       [pat |-> <<Lit({"de"}), AnyW, Lit({"a"}), AnyW, Lit({"de"}), Year4>>,
        s |-> 2, e |-> 4, y |-> 6],
       [pat |-> <<Lit(Periodos), Lit({"de"}), SlashW, Lit({"a"}), SlashW>>,
        s |-> 3, e |-> 5, y |-> 3],
       [pat |-> <<Lit({"entre"}), Lit({"os"}), Lit(Periodos), Lit({"de"}),
                  SlashW, Lit({"e"}), SlashW>>,
        s |-> 5, e |-> 7, y |-> 5] >>

\* the first between pattern that matches, 0 when none does (349-355)
FirstBetween(text) ==
    LET hits == {k \in 1..Len(BetweenPatterns) :
                   Search(text, BetweenPatterns[k].pat) > 0}
    IN  IF hits = {} THEN 0
        ELSE CHOOSE k \in hits : \A j \in hits : k <= j

\* the between match used only when no month was found before
BetweenStepKeepsFirst(text, entities) ==
    IF entities # EmptyDict THEN entities
    ELSE LET k == FirstBetween(text)
         IN  IF k = 0 THEN entities
             ELSE LET p == BetweenPatterns[k]
                      i == Search(text, p.pat)
                      start_month_num == MonthMapping(text[i + p.s - 1].w)
                      end_month_num == MonthMapping(text[i + p.e - 1].w)
                      year_num == ParseInt(text[i + p.y - 1].d)
                  IN  IF start_month_num > 0 /\ end_month_num > 0
                      THEN ("Data_>=" :> FmtDate(year_num, start_month_num, 1))
                           @@ ("Data_<" :> NextMonthStart(end_month_num,
                                                          year_num))
                      ELSE entities

\* 357-429: the range of months of the between match, when both months are
\* recognised
BetweenStep(text, entities) ==
    LET k == FirstBetween(text)
    IN  IF k = 0 THEN entities
        ELSE LET p == BetweenPatterns[k]
                 i == Search(text, p.pat)
                 start_month_num == MonthMapping(text[i + p.s - 1].w)
                 end_month_num == MonthMapping(text[i + p.e - 1].w)
                 year_num == ParseInt(text[i + p.y - 1].d)
             IN  IF start_month_num > 0 /\ end_month_num > 0
                 THEN ("Data_>=" :> FmtDate(year_num, start_month_num, 1))
                      @@ ("Data_<" :> NextMonthStart(end_month_num, year_num))
                 ELSE entities

\* year_patterns (432-438); the year is the last word of each
YearPatterns ==
    << <<Lit({"em"}), Year4>>,
       <<Lit({"no"}), Lit({"ano"}), Lit({"de"}), Year4>>,
       <<Lit({"durante"}), Year4>>,
       <<Lit({"no"}), Lit({"período", "periodo"}), Lit({"de"}), Year4>>,
       <<Lit({"período", "periodo"}), Lit({"de"}), Year4>> >>

\* 440-454: a bare year, looked for only when nothing was found before
YearStep(text, entities) ==
    LET hits == {k \in 1..Len(YearPatterns) : Search(text, YearPatterns[k]) > 0}
    IN  IF entities # EmptyDict \/ hits = {} THEN entities
        ELSE LET k == CHOOSE a \in hits : \A b \in hits : a <= b
                 i == Search(text, YearPatterns[k])
                 year_num == ParseInt(text[i + Len(YearPatterns[k]) - 1].d)
             IN  ("Data_>=" :> FmtDate(year_num, 1, 1))
                 @@ ("Data_<" :> FmtDate(year_num + 1, 1, 1))

\* dt + relativedelta(months=k) for the first day of a month
AddMonths(dt, k) ==
    LET total == dt.y * 12 + (dt.m - 1) + k
    IN  [y |-> total \div 12, m |-> (total % 12) + 1, d |-> dt.d]

\* dt + timedelta(days=1)
PlusOneDay(dt) ==
    IF dt.d < DaysInMonth(dt.y, dt.m) THEN [dt EXCEPT !.d = dt.d + 1]
    ELSE IF dt.m < 12 THEN [dt EXCEPT !.m = dt.m + 1, !.d = 1]
    ELSE [dt EXCEPT !.y = dt.y + 1, !.m = 1, !.d = 1]

\* dt - relativedelta(days=n)
RECURSIVE MinusDays(_, _)
MinusDays(dt, n) ==
    IF n = 0 THEN dt
    ELSE IF n < 0 THEN MinusDays(PlusOneDay(dt), n + 1)
    ELSE MinusDays(MinusOneDay(dt), n - 1)

StrfDate(dt) == FmtDate(dt.y, dt.m, dt.d)

\* set_dataset_context(df), for a dataset whose 'Data' column runs from
\* min_date to max_date (text_normalizer.py 22-53)
DatasetContext(min_date, max_date) ==
    LET month_start == [max_date EXCEPT !.d = 1]
    IN  [last_month |-> Fmt4(max_date.y) \o <<"-">> \o Fmt2(max_date.m),
         max_date |-> max_date,
         min_date |-> min_date,
         max_date_str |-> StrfDate(max_date),
         min_date_str |-> StrfDate(min_date),
         total_months |-> (max_date.y - min_date.y) * 12
                          + (max_date.m - min_date.m) + 1,
         temporal_examples |->
            [last_3_months_start |-> StrfDate(AddMonths(month_start, -2)),
             last_3_months_end |-> StrfDate(AddMonths(month_start, 1)),
             last_6_months_start |-> StrfDate(AddMonths(month_start, -5)),
             last_6_months_end |-> StrfDate(AddMonths(month_start, 1)),
             last_12_months_start |-> StrfDate(AddMonths(month_start, -11)),
             last_12_months_end |-> StrfDate(AddMonths(month_start, 1))]]

\* last_month_indicators (484-493), each the sequence of its words
LastMonthIndicators ==
    { <<"último", "mês">>, <<"ultimo", "mês">>, <<"último", "mes">>,
      <<"ultimo", "mes">>, <<"mês", "anterior">>, <<"mes", "anterior">>,
      <<"mês", "passado">>, <<"mes", "passado">>, <<"último", "período">>,
      <<"ultimo", "período">>, <<"ultimo", "periodo">>,
      <<"mês", "mais", "recente">>, <<"mes", "mais", "recente">>,
      <<"período", "mais", "recente">>, <<"último", "mês", "completo">>,
      <<"ultimo", "mês", "completo">>,
      <<"dados", "mais", "recentes", "do", "mês">>,
      <<"dados", "mais", "recentes", "do", "mes">>,
      <<"análise", "do", "período", "mais", "recente">>,
      <<"analise", "do", "período", "mais", "recente">>,
      <<"analise", "do", "periodo", "mais", "recente">> }

\* indicator in text
ContainsPhrase(text, phrase) ==
    \E i \in 1..Len(text) :
        MatchAt(text, i, [j \in 1..Len(phrase) |-> Lit({phrase[j]})])

\* subtle_indicators (500-505)
SubtleIndicators ==
    << <<"último", "mês">>, <<"ultimo", "mês">>, <<"último", "mes">>,
       <<"ultimo", "mes">>, <<"anterior", "mês">>, <<"anterior", "mes">>,
       <<"passado", "mês">>, <<"passado", "mes">>, <<"recente", "mês">>,
       <<"recente", "mes">>, <<"mais", "recente">>, <<"período", "recente">>,
       <<"periodo", "recente">>, <<"dados", "recentes">> >>

\* words.index(word): the first place of the word, 0 when it is no word of
\* the text
IndexOf(text, word) ==
    LET at == {i \in 1..Len(text) : text[i] = Word(word)}
    IN  IF at = {} THEN 0 ELSE CHOOSE i \in at : \A j \in at : i <= j

\* one pair of subtle_indicators (507-519)
SubtleHit(text, pair) ==
    LET idx1 == IndexOf(text, pair[1])
        idx2 == IndexOf(text, pair[2])
        lo == IF idx1 < idx2 THEN idx1 ELSE idx2
        hi == IF idx1 < idx2 THEN idx2 ELSE idx1
    IN  /\ idx1 > 0 /\ idx2 > 0
        /\ hi - lo <= 15
        /\ \E i \in 1..Len(text) :
              /\ i >= lo - 5 /\ i <= hi + 5
              /\ IsWord(text[i])
              /\ text[i].w \in {"mês", "mes", "período", "periodo"}

\* has_last_month_reference (496-519)
HasLastMonthReference(text) ==
    \/ \E phrase \in LastMonthIndicators : ContainsPhrase(text, phrase)
    \/ \E k \in 1..Len(SubtleIndicators) : SubtleHit(text, SubtleIndicators[k])

\* the month of the run taken from the system date
DetectLastMonthReferenceWallClock(text, context) ==
    IF context = NoDatasetContext \/ ~HasLastMonthReference(text) THEN EmptyDict
    ELSE MonthEntities(wall_clock.m, wall_clock.y)

\* _detect_last_month_reference(text) with self.dataset_context = context
DetectLastMonthReference(text, context) ==
    IF context = NoDatasetContext \/ ~HasLastMonthReference(text) THEN EmptyDict
    ELSE LET last_month_str == context.last_month
             dash == CHOOSE i \in 1..Len(last_month_str) :
                         last_month_str[i] = "-"
             year == ParseInt(SubSeq(last_month_str, 1, dash - 1))
             month == ParseInt(SubSeq(last_month_str, dash + 1,
                                      Len(last_month_str)))
         IN  MonthEntities(month, year)

\* the characters of the words of the relative patterns
Spelling(w) ==
    IF w = "últimos" THEN <<"ú", "l", "t", "i", "m", "o", "s">>
    ELSE IF w = "ultimos" THEN <<"u", "l", "t", "i", "m", "o", "s">>
    ELSE IF w = "meses" THEN <<"m", "e", "s", "e", "s">>
    ELSE IF w = "mês" THEN <<"m", "ê", "s">>
    ELSE IF w = "mes" THEN <<"m", "e", "s">>
    ELSE IF w = "anos" THEN <<"a", "n", "o", "s">>
    ELSE IF w = "ano" THEN <<"a", "n", "o">>
    ELSE IF w = "dias" THEN <<"d", "i", "a", "s">>
    ELSE IF w = "dia" THEN <<"d", "i", "a">>
    ELSE IF w = "trimestres"
    THEN <<"t", "r", "i", "m", "e", "s", "t", "r", "e", "s">>
    ELSE IF w = "trimestre" THEN <<"t", "r", "i", "m", "e", "s", "t", "r", "e">>
    ELSE IF w = "semestres" THEN <<"s", "e", "m", "e", "s", "t", "r", "e", "s">>
    ELSE IF w = "semestre" THEN <<"s", "e", "m", "e", "s", "t", "r", "e">>
    ELSE <<w>>

\* sub in s, on characters
IsSubstring(sub, s) ==
    \E i \in 1..(Len(s) - Len(sub) + 1) : SubSeq(s, i, i + Len(sub) - 1) = sub

Ultimos == Lit({"últimos", "ultimos"})

\* relative_patterns (572-581); an optional prefix does not change whether a
\* pattern matches
RelativePatterns ==
    << <<Ultimos, Number, Lit({"meses", "mês", "mes"})>>,
       <<Ultimos, Number, Lit({"anos", "ano"})>>,
       <<Ultimos, Number, Lit({"dias", "dia"})>>,
       <<Ultimos, Number, Lit({"trimestres", "trimestre"})>>,
       <<Ultimos, Number, Lit({"semestres", "semestre"})>>,
       <<Ultimos, Number, Lit({"meses", "mês", "mes"})>>,
       <<Ultimos, Number, Lit({"anos", "ano"})>>,
       <<Ultimos, Number, Lit({"meses", "mês", "mes"})>> >>

\* period_type and period_count of a match (589-603)
PeriodType(period_text, count) ==
    LET has(ws) == \E w \in ws : IsSubstring(Spelling(w), period_text)
    IN  IF has({"mês", "mes", "meses"}) THEN [type |-> "months", n |-> count]
        ELSE IF has({"ano", "anos"}) THEN [type |-> "years", n |-> count]
        ELSE IF has({"dia", "dias"}) THEN [type |-> "days", n |-> count]
        ELSE IF has({"trimestre", "trimestres"})
        THEN [type |-> "quarters", n |-> count * 3]
        ELSE IF has({"semestre", "semestres"})
        THEN [type |-> "semesters", n |-> count * 6]
        ELSE [type |-> "none", n |-> count]

\* the loop of _detect_relative_period_reference from pattern k on
RECURSIVE RelativeLoop(_, _, _)
RelativeLoop(text, context, k) ==
    IF k > Len(RelativePatterns) THEN EmptyDict
    ELSE LET i == Search(text, RelativePatterns[k])
         IN  IF i = 0 THEN RelativeLoop(text, context, k + 1)
             ELSE LET period_text == Spelling(text[i].w) \o <<" ">>
                                     \o text[i + 1].d \o <<" ">>
                                     \o Spelling(text[i + 2].w)
                      pt == PeriodType(period_text, ParseInt(text[i + 1].d))
                      max_date == context.max_date
                      month_start == [max_date EXCEPT !.d = 1]
                  IN  IF pt.type = "none"
                      THEN RelativeLoop(text, context, k + 1)
                      ELSE IF pt.type \in {"months", "quarters", "semesters"}
                      THEN ("Data_>=" :> StrfDate(AddMonths(month_start, -pt.n)))
                           @@ ("Data_<" :> StrfDate(AddMonths(month_start, 1)))
                      ELSE IF pt.type = "years"
                      THEN ("Data_>=" :> StrfDate([y |-> max_date.y - pt.n,
                                                   m |-> 1, d |-> 1]))
                           @@ ("Data_<" :> StrfDate(PlusOneDay(max_date)))
                      ELSE ("Data_>=" :> StrfDate(MinusDays(max_date, pt.n - 1)))
                           @@ ("Data_<" :> StrfDate(PlusOneDay(max_date)))

\* _detect_relative_period_reference(text)
DetectRelativePeriodReference(text, context) ==
    IF context = NoDatasetContext THEN EmptyDict
    ELSE RelativeLoop(text, context, 1)

\* parse_temporal_entities(text) with self.dataset_context = context; the
\* result holds the two dates (its debugging metadata is left out)
ParseTemporalEntities(text, context) ==
    LET explicit == YearStep(text, BetweenStep(text,
                        MonthYearLoop(text, 1, EmptyDict)))
        last == IF explicit = EmptyDict /\ context # NoDatasetContext
                THEN DetectLastMonthReference(text, context)
                ELSE explicit
    IN  IF last = EmptyDict /\ context # NoDatasetContext
        THEN DetectRelativePeriodReference(text, context)
        ELSE last

-----------------------------------------------------------------------------
(* The normalizer in use: the dataset context is set once, the system date  *)
(* moves, utterances are parsed.                                            *)

DatasetMinDate == [y |-> FirstYear, m |-> 1, d |-> 1]

\* the dataset ends on the last day of a month of its years
DatasetMaxDates ==
    {[y |-> y, m |-> m, d |-> DaysInMonth(y, m)] : y \in Years, m \in 1..12}

TemporalUtterances ==
    LET W(x) == Word(x)
        Y == Num(Fmt4(FirstYear))
    IN  { <<W("total"), W("do"), W("mês"), W("passado")>>,
          <<W("vendas"), W("do"), W("último"), W("mês")>>,
          <<W("dados"), W("recentes"), W("do"), W("período")>>,
          <<W("mês"), W("passado"), W("em"), W("julho"), W("de"), Y>>,
          <<W("últimos"), Num(<<"3">>), W("meses")>>,
          <<W("entre"), W("junho"), W("e"), W("julho"), W("de"), Y>> }

SetDatasetContext(max_date) ==
    /\ dataset_context = NoDatasetContext
    /\ dataset_context' = DatasetContext(DatasetMinDate, max_date)
    /\ UNCHANGED <<engineVars, period, wall_clock, runs, sessionVars>>

ClockTick(now) ==
    /\ now # wall_clock
    /\ wall_clock' = now
    /\ UNCHANGED <<engineVars, period, dataset_context, runs, sessionVars>>

ParseRun(text) ==
    /\ runs' = (IF Len(runs) = 2 THEN Tail(runs) ELSE runs)
               \o << [text |-> text, wall |-> wall_clock,
                      anchored |-> dataset_context # NoDatasetContext,
                      out |-> ParseTemporalEntities(text, dataset_context)] >>
    /\ UNCHANGED <<engineVars, period, dataset_context, wall_clock, sessionVars>>

SpecTemporalNext ==
    \/ \E max_date \in DatasetMaxDates : SetDatasetContext(max_date)
    \/ \E now \in WallClocks : ClockTick(now)
    \/ \E text \in TemporalUtterances : ParseRun(text)

SpecTemporal == Init /\ [][SpecTemporalNext]_vars

-----------------------------------------------------------------------------
(* parse_temporal_entities on the phrasings of its pattern families, for a  *)
(* normalizer with or without a dataset context.                            *)

\* the largest count written in "últimos N ..." besides 6 and 12
MaxCount == 3

\* the counts of the relative phrases
Counts ==
    {<<Digits[n + 1]>> : n \in 0..MaxCount} \union {<<"6">>, <<"1", "2">>}

RelativeUnits ==
    {"meses", "mes", "anos", "dias", "trimestres", "trimestre",
     "semestres", "semestre"}

\* "últimos N <unit>"
RelativePhrase(n, unit) == <<Word("últimos"), Num(n), Word(unit)>>

\* the months and years named in the range phrases
PhraseMonths == {"junho", "julho", "dezembro"}
PhraseYears == {Fmt4(FirstYear), Fmt4(FirstYear + 1)}

\* the phrasings of between_patterns (338-347), by pattern index, for the
\* months sm and em and the years y and y2 (y2 only in the slash variants)
BetweenPhrase(k, sm, em, y, y2) ==
    IF k = 0
    THEN <<Word("entre"), Word(sm), Word("e"), Word(em), Word("de"), Num(y)>>
    ELSE IF k = 1
    THEN <<Word("entre"), Slash(sm, y), Word("e"), Slash(em, y2)>>
    ELSE IF k = 2
    THEN <<Word("entre"), Word("os"), Word("períodos"), Word("de"), Word(sm),
           Word("e"), Word(em), Word("de"), Num(y)>>
    ELSE IF k = 3
    THEN <<Word("entre"), Word("os"), Word("meses"), Word("de"), Word(sm),
           Word("e"), Word(em), Word("de"), Num(y)>>
    ELSE IF k = 4
    THEN <<Word("do"), Word("período"), Word("de"), Word(sm), Word("a"),
           Word(em), Word("de"), Num(y)>>
    ELSE IF k = 5
    THEN <<Word("de"), Word(sm), Word("a"), Word(em), Word("de"), Num(y)>>
    ELSE IF k = 6
    THEN <<Word("período"), Word("de"), Slash(sm, y), Word("a"), Slash(em, y2)>>
    ELSE <<Word("entre"), Word("os"), Word("períodos"), Word("de"),
           Slash(sm, y), Word("e"), Slash(em, y2)>>

SlashPhrasings == {1, 6, 7}

BetweenPhrases ==
    {BetweenPhrase(t[1], t[2], t[3], t[4], t[5]) :
        t \in {u \in (0..7) \X PhraseMonths \X PhraseMonths
                     \X PhraseYears \X PhraseYears :
                 u[1] \notin SlashPhrasings => u[5] = u[4]}}

\* utterances of one family, and utterances in which several families match
FamilyPhrases ==
    LET W(x) == Word(x)
        Y == Num(Fmt4(FirstYear))
        ultimos == <<W("últimos"), Num(<<"3">>), W("meses")>>
    IN  { <<W("vendas"), W("em"), W("julho"), W("de"), Y>>,
          <<W("vendas"), W("julho"), Y>>,
          <<W("vendas"), Slash("julho", Fmt4(FirstYear))>>,
          <<W("vendas"), W("em"), Y>>,
          <<W("vendas"), W("no"), W("ano"), W("de"), Y>>,
          <<W("vendas"), W("do"), W("mês"), W("passado")>>,
          <<W("vendas"), W("totais")>>,
          <<W("vendas"), W("em"), Y, W("e"), W("em"), W("julho"), W("de"), Y>>,
          <<W("mês"), W("passado"), W("em"), W("julho"), W("de"), Y>>,
          <<W("mês"), W("passado"), W("em"), Y>>,
          <<W("mês"), W("passado"), W("e")>> \o ultimos,
          ultimos \o <<W("em"), Y>>,
          ultimos \o <<W("em"), W("julho"), W("de"), Y>>,
          ultimos \o <<W("entre"), W("junho"), W("e"), W("julho"), W("de"), Y>>,
          <<W("em"), Y, W("entre"), W("junho"), W("e"), W("julho"), W("de"), Y>> }

ParseUtterances ==
    {RelativePhrase(n, unit) : n \in Counts, unit \in RelativeUnits}
    \union BetweenPhrases \union FamilyPhrases

\* what parse_temporal_entities returned for the text
ParseReturn(text, context, out) ==
    call' = [op |-> "parse", text |-> text, context |-> context, out |-> out]

\* normalizer.parse_temporal_entities(text)
ParseCall(text) ==
    /\ call.op = "none"
    /\ ParseReturn(text, dataset_context,
                   ParseTemporalEntities(text, dataset_context))
    /\ UNCHANGED <<ctx, period, temporalVars, sessionVars>>

SpecParseNext ==
    \/ \E max_date \in DatasetMaxDates : SetDatasetContext(max_date)
    \/ \E text \in ParseUtterances : ParseCall(text)
    \/ DiscardResult

SpecParse == Init /\ [][SpecParseNext]_vars

-----------------------------------------------------------------------------
(* Properties of the merge engine and the removal detector (Spec)           *)

IsMultiList(val) == val.k = "list" /\ Len(val.v) > 1

NewValue(new_filters, f) ==
    new_filters[CHOOSE i \in 1..Len(new_filters) : new_filters[i][1] = f][2]

\* C1: after any merge no Exclusive field of the merged context holds a list
\* of more than one element.
C1_ExclusivityAfterMerge ==
    call.op = "merge" =>
        \A f \in ExclusiveFields :
            Has(call.out, f) => ~IsMultiList(call.out[f])

\* C2: merging the same new-filter set into the merged context once more
\* leaves that context as it is.
C2_MergeIdempotent ==
    call.op = "merge" =>
        ApplyIntelligentMerge(call.out, call.new).res = call.out

\* C3: a critical field with a non-empty value in the old context that the
\* new filter set does not mention is in the merged context with its old value.
C3_CriticalFieldPreserved ==
    call.op = "merge" =>
        \A i \in 1..Len(CriticalFields) :
            LET f == CriticalFields[i]
            IN  (/\ Has(call.in, f)
                 /\ ~IsEmpty(call.in[f])
                 /\ f \notin Keys(call.new))
                => Has(call.out, f) /\ call.out[f] = call.in[f]

C3_Witness ==
    /\ call.op = "merge"
    /\ Has(call.in, "UF_Cliente")
    /\ Has(call.in, "Municipio_Cliente")
    /\ Keys(call.new) = {"Municipio_Cliente", "Data"}
    /\ call.out["Municipio_Cliente"] # call.in["Municipio_Cliente"]
    /\ call.out["UF_Cliente"] = call.in["UF_Cliente"]

ExclusiveReplaced(f) ==
    /\ Has(call.out, f)
    /\ call.out[f] = NewValue(call.new, f)
    /\ call.in[f] = NewValue(call.new, f)
        => \A k \in 1..Len(call.chg) : call.chg[k].field # f

C5_ExactDateClearsRanges ==
    (/\ call.op = "merge"
     /\ "Data" \in Keys(call.new)
     /\ Keys(call.new) \cap Range(RangeFields) = {}
     /\ DOMAIN call.in \cap Range(RangeFields) # {})
    => /\ Has(call.out, "Data")
       /\ call.out["Data"] = NewValue(call.new, "Data")
       /\ DOMAIN call.out \cap Range(RangeFields) = {}

\* C6: a merge leaves the context object it was given as it was: the same keys
\* and the same list contents.
C6_MergeLeavesInputUnmodified ==
    call.op = "merge" => ctx = call.in

\* C9: a clear-all utterance on a non-empty context is reported as clear-all
\* without the field-level patterns being evaluated, empties the context and
\* logs the number of non-empty filters removed.
C9_ClearAll ==
    (call.op = "removal" /\ call.utt.clear /\ call.in # EmptyCtx)
    => /\ call.det = [has |-> TRUE, fields |-> {}, clear_all |-> TRUE,
                      scanned |-> FALSE]
       /\ call.removed
       /\ call.out = EmptyCtx
       /\ Len(call.chg) = 1
       /\ call.chg[1].kind = "LIMPEZA_TOTAL"
       /\ call.chg[1].n = Cardinality({f \in DOMAIN call.in : call.in[f].v # <<>>})

C9_Witness ==
    /\ call.op = "removal"
    /\ call.utt = [clear |-> TRUE, terms |-> {"cidade"}]
    /\ {"Municipio_Cliente", "Data_>="} \subseteq DOMAIN call.in
    /\ call.out = EmptyCtx
    /\ call.chg[1].n >= 2

\* the values a stored value stands for: the items of a list, or the string
ItemsOf(val) == IF val.k = "list" THEN Range(val.v) ELSE {val.v[1]}

\* C12: after a merge that gives a value to a product or representative field
\* the field holds a list without duplicates that has the new value and,
\* when the field was in the context, the values it had; in particular a
\* value merged into a context without the field gives a one-element list
C12_MultiValueAccumulation ==
    call.op = "merge" =>
        \A f \in (MultiValueFields \ Range(RangeFields)) \cap Keys(call.new) :
            /\ Has(call.out, f)
            /\ call.out[f].k = "list"
            /\ ItemsOf(NewValue(call.new, f)) \subseteq Range(call.out[f].v)
            /\ Has(call.in, f) => ItemsOf(call.in[f]) \subseteq Range(call.out[f].v)
            /\ Cardinality(Range(call.out[f].v)) = Len(call.out[f].v)

\* C13: merging a new filter set that sets Data_>= and/or Data_<, and not
\* Data, into a context that holds an exact date gives a context without
\* Data, whether or not the context held a range field
C13_RangeClearsExactDate ==
    (/\ call.op = "merge"
     /\ Has(call.in, "Data") /\ ~IsEmpty(call.in["Data"])
     /\ Keys(call.new) \cap {"Data_>=", "Data_<"} # {}
     /\ "Data" \notin Keys(call.new))
    => ~Has(call.out, "Data")


\* C7: a structured period (one month, months of one year, months across
\* years, a full year) converted to the half-open interval of context dates
\* and classified again is the period itself
C7_PeriodRoundTrip ==
    period.op = "classified" => period.back = period.p

\* the variants that do round-trip: one month and months within one year
C7_SameYearRoundTrip ==
    (period.op = "classified" /\ ("mes" \in DOMAIN period.p
                                  \/ period.p.inicio.ano = period.p.fim.ano))
        => period.back = period.p


\* the text names no month of a year and no year: it has no four-digit number
NoExplicitMonthYear(text) ==
    \A i \in 1..Len(text) : Len(text[i].d) # 4

\* the month that holds the maximum date of the dataset
DatasetLastMonth ==
    MonthEntities(dataset_context.max_date.m, dataset_context.max_date.y)

\* C8: with the dataset context set, an utterance of the last-month family
\* that names no month or year gives the calendar month holding the maximum
\* date of the dataset, and two runs on the same text give the same result
\* whatever the system date of each
C8_LastMonthDatasetAnchored ==
    /\ \A i \in 1..Len(runs) :
          (/\ runs[i].anchored
           /\ HasLastMonthReference(runs[i].text)
           /\ NoExplicitMonthYear(runs[i].text))
              => runs[i].out = DatasetLastMonth
    /\ \A i, j \in 1..Len(runs) :
          (runs[i].anchored /\ runs[j].anchored /\ runs[i].text = runs[j].text)
              => runs[i].out = runs[j].out

C8_Witness ==
    /\ Len(runs) = 2
    /\ runs[1].anchored /\ runs[2].anchored
    /\ runs[1].text = runs[2].text
    /\ runs[1].wall # runs[2].wall
    /\ HasLastMonthReference(runs[1].text)
    /\ NoExplicitMonthYear(runs[1].text)
    /\ runs[2].out = DatasetLastMonth
    /\ dataset_context.max_date.m = 12


\* a query that has no WHERE clause, or a WHERE clause in which no pattern
\* matches, or that makes the extraction fail
NoFilterQuery(q) ==
    q.kind = "none" \/ ~q.where \/ ExtractWhereConditions(q) = <<>>

FilterQuery(q) == ~NoFilterQuery(q)

\* C10: queries with no WHERE clause, with a WHERE clause no pattern matches
\* or on which extraction fails add nothing to the extracted filters, and a
\* turn with only such queries returns a context equal to the one given and
\* leaves that one as it was
C10_NoFilterDegradation ==
    call.op = "sql" =>
        /\ call.filters =
              ExtractFiltersFromMultipleQueries(SelectSeq(call.sqls, FilterQuery))
        /\ (\A i \in 1..Len(call.sqls) : NoFilterQuery(call.sqls[i]))
              => /\ call.filters = EmptyDict
                 /\ call.out = call.in
                 /\ ctx = call.in

C10_Witness ==
    /\ call.op = "sql"
    /\ Len(call.sqls) = 2
    /\ call.sqls[1] = NotAString
    /\ call.sqls[2].kind = "sql" /\ call.sqls[2].where
    /\ NoFilterQuery(call.sqls[2])
    /\ call.in # EmptyCtx
    /\ call.out = call.in

-----------------------------------------------------------------------------
(* Properties of the session (SpecSession)                                  *)

\* the filter of this key of the context is disabled
DisabledKey(context, disabled, key) ==
    IsDisabled(disabled, IdNameOfKey(context, key),
               IF IdNameOfKey(context, key) = RangeName
               THEN RangeId(context["Data_>="], context["Data_<"])
               ELSE context[key])

\* the extracted filters of the turn set nothing in the category of the key
UntouchedByTurn(new_filters, key) ==
    Keys(new_filters)
        \cap (IF key \in Range(TemporalFields) THEN Range(TemporalFields)
              ELSE {key}) = {}

\* C11: a turn processed while a filter of the stored context is disabled
\* hands the agent a context without that filter and keeps the filter in the
\* stored context, so that enabling it again makes the same filter active
C11_DisableEnableRoundTrip ==
    call.op = "turn" =>
        \A key \in DOMAIN call.before :
            (/\ DisabledKey(call.before, call.disabled, key)
             /\ UntouchedByTurn(call.new, key))
            => /\ ~Has(call.handed, key)
               /\ Has(ctx, key)
               /\ ctx[key] = call.before[key]

-----------------------------------------------------------------------------
(* Properties of validation and auto-correction (SpecResolve)               *)

\* the context holds a non-empty exact date and a non-empty range bound
DateConflict(context) ==
    /\ Has(context, "Data") /\ ~IsEmpty(context["Data"])
    /\ \E r \in RangeKeys : Has(context, r) /\ ~IsEmpty(context[r])

\* C14: validation followed by auto-correction of an invalid context, as run
\* at the end of every turn, leaves no context with a non-empty Data and a
\* non-empty Data_>= or Data_<; when both were there Data is dropped and
\* the range bounds are the ones given
C14_DateConflictResolution ==
    call.op = "end_of_turn" =>
        /\ ~DateConflict(call.out)
        /\ DateConflict(call.in) =>
              /\ ~Has(call.out, "Data")
              /\ \A r \in RangeKeys \cap DOMAIN call.in :
                    Has(call.out, r) /\ call.out[r] = call.in[r]

C14_Witness ==
    /\ call.op = "end_of_turn"
    /\ DOMAIN call.in = {"Data", "Data_>=", "Data_<"}
    /\ DateConflict(call.in)
    /\ DOMAIN call.out = {"Data_>=", "Data_<"}
    /\ call.out["Data_>="] = Str("d1")

\* the fields declared Exclusive that the claim names
DeclaredExclusive ==
    {"Municipio_Cliente", "UF_Cliente", "Cod_Cliente", "Cod_Segmento_Cliente",
     "Data"}

\* C15: validate_context_consistency returns (False, reasons) for every
\* context in which a field declared Exclusive holds a list of more than
\* one element
C15_ValidationOfExclusivity ==
    (/\ call.op = "validate"
     /\ \E f \in DeclaredExclusive \cap DOMAIN call.in : IsMultiList(call.in[f]))
    => ~call.valid /\ call.problems # <<>>

\* C16: auto_resolve_conflicts applied to its own result returns that result
C16_AutoResolveIdempotent ==
    call.op = "auto_resolve" =>
        AutoResolveConflicts(call.out).res = call.out

\* C17: the context auto_resolve_conflicts returns passes
\* validate_context_consistency
C17_ResolverReachesValid ==
    call.op = "auto_resolve" => ValidateContextConsistency(call.out)

-----------------------------------------------------------------------------
(* Properties of the temporal extraction (SpecExtract)                      *)

\* C18: a WHERE clause whose only temporal condition is Data = 'YYYY-MM-DD'
\* gives the context field Data with that date and no range
C18_ExactDateExtraction ==
    (call.op = "extract" /\ call.kind = "exact")
    => /\ DOMAIN call.out = {"Data"}
       /\ call.out["Data"] = DateValue(call.a)

\* the structured period the extraction gives for Data >= a AND Data < b
OpenPeriod(a, b) ==
    PeriodoOf(ProcessarFiltrosApenasSql(<<DateQuery("open", a, b)>>,
                                        EmptyCtx).filters)

\* C19: Data >= a AND Data <= b, also written BETWEEN a AND b, gives the
\* structured period of Data >= a AND Data < b + 1 day
C19_InclusiveUpperBound ==
    (call.op = "extract" /\ call.kind \in {"closed", "between"})
    => call.periodo = OpenPeriod(call.a, PlusOneDay(call.b))

\* C20: Data >= a AND Data < b with a and b first days of months is
\* classified as the months from the month of a to the month before b, one
\* month when b is the next month, and the context range derived from the
\* classification is [a, b)
C20_MonthRangeClassification ==
    (call.op = "extract" /\ call.kind = "open" /\ call.a.d = 1 /\ call.b.d = 1)
    => /\ call.periodo =
             IF AddMonths(call.a, 1) = call.b THEN MesAno(call.a.m, call.a.y)
             ELSE [inicio |-> MesAno(call.a.m, call.a.y),
                   fim |-> MesAno(MinusOneDay(call.b).m, MinusOneDay(call.b).y)]
       /\ DOMAIN call.out = {"Data_>=", "Data_<"}
       /\ call.out["Data_>="] = DateValue(call.a)
       /\ call.out["Data_<"] = DateValue(call.b)

\* C21: Data >= a AND Data < b with a or b not the first day of a month is
\* kept as given: the context range is [a, b), neither widened nor shortened
\* to months
C21_RawRangeKept ==
    (call.op = "extract" /\ call.kind = "open"
       /\ (call.a.d # 1 \/ call.b.d # 1))
    => /\ DOMAIN call.out = {"Data_>=", "Data_<"}
       /\ call.out["Data_>="] = DateValue(call.a)
       /\ call.out["Data_<"] = DateValue(call.b)

-----------------------------------------------------------------------------
(* Properties of the temporal parser on its pattern families (SpecParse)    *)

\* a parse of <<"últimos", N, unit>> with the dataset context set
RelativeParse(units) ==
    /\ call.op = "parse"
    /\ call.context # NoDatasetContext
    /\ Len(call.text) = 3
    /\ call.text[1] = Word("últimos")
    /\ IsNum(call.text[2])
    /\ IsWord(call.text[3]) /\ call.text[3].w \in units

\* the first day of the month of the dataset's maximum date
MonthStart(context) == [context.max_date EXCEPT !.d = 1]

\* C22: "últimos N trimestres" starts N x 3 months, "últimos N semestres"
\* N x 6 months, before the first day of the month of the maximum date
C22_QuarterSemesterNormalisation ==
    /\ RelativeParse({"trimestres", "trimestre"})
       => /\ "Data_>=" \in DOMAIN call.out
          /\ call.out["Data_>="] =
                StrfDate(AddMonths(MonthStart(call.context),
                                   -(3 * ParseInt(call.text[2].d))))
    /\ RelativeParse({"semestres", "semestre"})
       => /\ "Data_>=" \in DOMAIN call.out
          /\ call.out["Data_>="] =
                StrfDate(AddMonths(MonthStart(call.context),
                                   -(6 * ParseInt(call.text[2].d))))

\* the result of each pattern family taken alone, in the order of priority:
\* month range, month and year, bare year, last month, relative period
FamilyResults(text, context) ==
    << BetweenStep(text, EmptyDict),
       MonthYearLoop(text, 1, EmptyDict),
       YearStep(text, EmptyDict),
       DetectLastMonthReference(text, context),
       DetectRelativePeriodReference(text, context) >>

\* the result of the first family that has one, {} when none has
FirstResult(results) ==
    LET hits == {k \in 1..Len(results) : results[k] # EmptyDict}
    IN  IF hits = {} THEN EmptyDict
        ELSE results[CHOOSE k \in hits : \A j \in hits : k <= j]

\* C23: the result of parse_temporal_entities is the result of the family of
\* highest priority that matched: month range, then month and year, then
\* bare year, then last month, then "últimos N ..."
C23_FamilyPriority ==
    call.op = "parse"
    => call.out = FirstResult(FamilyResults(call.text, call.context))

\* a parse in which the month-range family and a lower family both matched
\* with different results, and one in which only the last two families did
C23_Witness ==
    /\ call.op = "parse"
    /\ call.context # NoDatasetContext
    /\ LET results == FamilyResults(call.text, call.context)
       IN  /\ results[1] # EmptyDict
           /\ results[2] # EmptyDict
           /\ results[5] # EmptyDict
           /\ results[1] # results[2]
           /\ results[1] # results[5]
           /\ call.out = results[1]

\* C24: every range parse_temporal_entities returns starts strictly before
\* its exclusive end
C24_WellFormedRanges ==
    (call.op = "parse" /\ call.out # EmptyDict)
    => Before(Strptime(call.out["Data_>="]), Strptime(call.out["Data_<"]))

\* the pre-computed range of "últimos N meses" in the dataset context
PublishedRange(context, n) ==
    LET examples == context.temporal_examples
    IN  IF n = <<"3">>
        THEN <<examples.last_3_months_start, examples.last_3_months_end>>
        ELSE IF n = <<"6">>
        THEN <<examples.last_6_months_start, examples.last_6_months_end>>
        ELSE <<examples.last_12_months_start, examples.last_12_months_end>>

\* C25: for N in {3, 6, 12} the range returned for "últimos N meses" is the
\* range last_N_months_start .. last_N_months_end of the dataset context
C25_RelativePeriodConsistency ==
    (RelativeParse({"meses"})
       /\ call.text[2].d \in {<<"3">>, <<"6">>, <<"1", "2">>})
    => /\ DOMAIN call.out = {"Data_>=", "Data_<"}
       /\ <<call.out["Data_>="], call.out["Data_<"]>> =
             PublishedRange(call.context, call.text[2].d)

-----------------------------------------------------------------------------
(* Field-level removal (Spec)                                               *)

\* C26: for an utterance with a removal phrase that is no clear-all, the
\* removal targets are fields of the context, every other field keeps its
\* value, and when the terms map to no field of the context the context is
\* returned unchanged with the report that there was nothing to remove
C26_FieldLevelRemoval ==
    (call.op = "removal" /\ ~call.utt.clear /\ call.utt.terms # {})
    => /\ call.det.fields \subseteq DOMAIN call.in
       /\ \A f \in DOMAIN call.in \ call.det.fields :
             Has(call.out, f) /\ call.out[f] = call.in[f]
       /\ call.det.fields = {}
          => /\ call.out = call.in
             /\ call.chg = <<Chg("INFO_nada_a_remover", "")>>

-----------------------------------------------------------------------------
(* Properties of the disabled identifiers and of clear-all (SpecSession)    *)

\* C27: after the sidebar is drawn at the start of a turn, every disabled
\* identifier is the identifier of a filter of the context it was drawn from
C27_DisabledSetPruned ==
    call.op = "turn"
    => \A name \in DOMAIN call.disabled :
          IsDisabled(CurrentFilterIds(call.shown), name, call.disabled[name])

\* the fields of the extracted filters of a turn
ExtractedFields(new) == {new[i][1] : i \in 1..Len(new)}

\* C29: the turn after a clear-all starts from the empty context, and the
\* context it stores holds only fields its own SQL contains
C29_ClearAllDurable ==
    (call.op = "turn" /\ call.cleared)
    => /\ call.before = EmptyCtx
       /\ DOMAIN call.out \subseteq ExtractedFields(call.new)

-----------------------------------------------------------------------------
(* Properties of the pruning (SpecSidebar)                                  *)

\* C28: a disabled identifier of a checkbox the sidebar draws for the
\* context is still disabled after the pruning, a temporal filter with one
\* bound included
C28_PruningKeepsLiveToggles ==
    call.op = "cleanup"
    => \A name \in DOMAIN call.before :
          IsDisabled(call.after, name, call.before[name])

-----------------------------------------------------------------------------
(* Properties of the condition parser (SpecSql)                             *)

\* the keys _extract_where_conditions stores for a column of the query
KeysOfColumn(q, col) ==
    {ExtractWhereConditions(q)[k][1] :
        k \in {n \in 1..Len(ExtractWhereConditions(q)) :
                 ExtractWhereConditions(q)[n][1].col = col}}

\* C30: for a quoted equality col = 'v' of a query the condition parser
\* stores the key col alone, and no key made of col and an operator
C30_EqualityNotMisclassified ==
    call.op = "sql"
    => \A i \in 1..Len(call.sqls) :
          call.sqls[i].kind = "sql"
          => \A j \in 1..Len(call.sqls[i].conds) :
                call.sqls[i].conds[j].form = "eq"
                => KeysOfColumn(call.sqls[i], call.sqls[i].conds[j].col)
                       = {SqlKey(call.sqls[i].conds[j].col, "")}

=============================================================================
